---- MODULE Spec2Model ----
(***************************************************************************)
(* Model of the script-parser coprocessor: the /api/parse request          *)
(* pipeline (app/main.py), the transcription bridge                        *)
(* (app/services/asr_service.py), the primary/fallback failover            *)
(* (app/services/llm_service.py, app/services/llm_execution_service.py),   *)
(* temp-file handling (app/services/file_handler.py) and the error         *)
(* mapping (app/error_handling.py).                                        *)
(*                                                                         *)
(* Python strings are modelled as sequences of tokens, so that an          *)
(* f-string is a concatenation and "s in message" is token membership.     *)
(***************************************************************************)
EXTENDS Integers, Sequences, FiniteSets, TLC

VARIABLES
    rid,             \* number of /api/parse requests received so far
    next_uuid,       \* source of uuid.uuid4() values in save_upload_file
    pc,              \* position of the current request inside parse_video
    req,             \* the request: content type, JSON body, form url, file
    orch,            \* WorkflowOrchestrator: the four lazy handles + checkpoints
    temp_file_info,  \* parse_video's local temp_file_info
    disk,            \* paths that exist under TEMP_DIR
    video_info,      \* process_url_workflow's video_info
    asr,             \* the ASRService call in progress
    transcript_text, \* the workflow's transcript_text
    fo,              \* one failover execution (LLMRouter / LLMExecutionService)
    llm_analysis,    \* the workflow's llm_analysis
    outcome,         \* the return value or raised HTTPException of the try block
    response,        \* what the client receives once the finally block has run
    calls,           \* external calls of the current request, in order
    cleanup_log,     \* arguments of cleanup_resources calls of the current request
    http,            \* HTTPClientManager: _client, _lock, the clients it created
    tasks            \* asyncio tasks running side by side, each with its locals

vars == <<rid, next_uuid, pc, req, orch, temp_file_info, disk, video_info, asr,
          transcript_text, fo, llm_analysis, outcome, response, calls,
          cleanup_log, http, tasks>>

\* the shared HTTP client and the task table: the steps of the request
\* pipeline and of the services modelled on their own leave them alone,
\* except for the adapters' calls, which fetch the shared client
sideVars == <<http, tasks>>

pipeVars == <<rid, next_uuid, pc, req, orch, temp_file_info, disk, video_info,
              asr, transcript_text, llm_analysis, outcome, response, calls,
              cleanup_log>>

----------------------------------------------------------------------------
(* Bounds *)

MaxRequests == 2

MaxHandled == 2

\* the desc of a Douyin page: a text, blanks only, a text with characters
\* that file names cannot hold
Descs == { <<"T">>, <<" ">>, <<"a", "/", "b", ":", "c">> }

DouyinUrls == {"https://v.douyin.com/x"}

XhsUrls == {"https://www.xiaohongshu.com/i"}

OtherUrls == {"https://example.com/v"}

Words == {"look"}

ShareTexts == DouyinUrls \cup XhsUrls \cup OtherUrls \cup Words

\* file names of uploads, one token per run of letters and digits and one per
\* other character: a.mp4, ../a.mp4, and "a $<CJK>b.mp4" with a character
\* outside ASCII
Filenames ==
    { <<"a", ".", "mp4">>,
      <<".", ".", "/", "a", ".", "mp4">>,
      <<"a", " ", "$", "<U+4E2D>", "b", ".", "mp4">> }

\* len(content) of an upload
FileSizes == {3}

TranscriptTexts == {<<"hello">>, <<>>}

ErrTexts == {<<"e1">>, <<"e2">>}

FailoverInputs == {<<"t1">>, <<"t2">>, <<>>}

Hooks == {"h1", "h2"}

----------------------------------------------------------------------------
(* Values *)

None == [kind |-> "None"]

\* str(x) for a token sequence is the sequence itself
Contains(msg, tok) == \E i \in 1..Len(msg) : msg[i] = tok

\* s occurs in msg as a contiguous run of tokens
ContainsSeq(msg, s) ==
    \E i \in 0..(Len(msg) - Len(s)) :
        \A j \in 1..Len(s) : msg[i + j] = s[j]

\* s occurs in msg directly after the token label
Labeled(msg, label, s) ==
    \E i \in 1..(Len(msg) - Len(s)) :
        /\ msg[i] = label
        /\ \A j \in 1..Len(s) : msg[i + j] = s[j]

Exc(type, msg) == [kind |-> "exception", type |-> type, msg |-> msg]

\* the ASCII characters for which str.isspace() holds: blank, \t, \n, \r,
\* \f, and the control characters U+000B, U+001C, U+001D, U+001E, U+001F
\* (written as themselves)
AsciiWhitespace ==
    {" ", "\t", "\n", "\r", "\f", "", "", "", "", ""}

\* whitespace outside ASCII whose NFKD form is a blank: U+00A0 (written as
\* itself), U+2000..U+200A, U+202F, U+205F, U+3000 (written by name)
SpaceLike ==
    {" ", "<U+2000>", "<U+2001>", "<U+2002>", "<U+2003>", "<U+2004>", "<U+2005>",
     "<U+2006>", "<U+2007>", "<U+2008>", "<U+2009>", "<U+200A>", "<U+202F>", "<U+205F>", "<U+3000>"}

\* whitespace outside ASCII that NFKD leaves alone: U+0085 and U+1680
\* (written as themselves), U+2028, U+2029 (written by name)
OtherWhitespace == {"", " ", "<U+2028>", "<U+2029>"}

\* the characters str.strip() and str.split() take for whitespace
Whitespace == AsciiWhitespace \cup SpaceLike \cup OtherWhitespace

RECURSIVE LStrip(_)
LStrip(s) == IF s # <<>> /\ Head(s) \in Whitespace THEN LStrip(Tail(s)) ELSE s

RECURSIVE RStrip(_)
RStrip(s) ==
    IF s # <<>> /\ s[Len(s)] \in Whitespace
    THEN RStrip(SubSeq(s, 1, Len(s) - 1)) ELSE s

\* str.strip()
Strip(s) == LStrip(RStrip(s))

\* str(x) of a float with a whole value: 120.0
FloatStr(x) == ToString(x) \o ".0"

\* float(os.getenv("ASR_TIMEOUT", "120"))
ASR_TIMEOUT == 120

----------------------------------------------------------------------------
(* http_client.py: the shared client and its lock *)

\* asyncio.Lock(): not held, nobody waiting
Lock == [locked |-> FALSE, waiters |-> <<>>]

\* http_client.py, lines 16-18: the class attributes of HTTPClientManager
\* (_client, _lock), and the httpx.AsyncClient objects created so far
HTTPClientManager == [_client |-> None, _lock |-> Lock, clients |-> <<>>]

\* TimeoutConfig.get_http_timeout(): connect, read, write, pool
DefaultTimeout == [connect |-> 5, read |-> 30, write |-> 10, pool |-> 5]

\* httpx.Timeout(x): the four timeouts set to x
Timeout(x) == [connect |-> x, read |-> x, write |-> x, pool |-> x]

\* values of timeout_override used by callers of request()
Overrides == {None, [kind |-> "float", value |-> 2]}

\* a reference to the n-th httpx.AsyncClient that was created
ClientRef(n) == [kind |-> "AsyncClient", id |-> n]

\* httpx.AsyncClient(timeout=timeout, limits=limits, ...), lines 34-39
AsyncClient == [state |-> "open", timeout |-> DefaultTimeout]

\* the operations a task can run on the shared manager
HttpOps ==
    { [name |-> "get_client"], [name |-> "close"] }
    \cup { [name |-> "request", timeout_override |-> o] : o \in Overrides }

\* asyncio.Lock.acquire returns at once: the lock is free and nobody waits
Acquirable(lock) == ~lock.locked /\ lock.waiters = <<>>

\* asyncio.Lock.acquire: the caller joins the queue of waiters
Enqueue(lock, t) == [lock EXCEPT !.waiters = Append(@, t)]

\* release() woke the first waiter, and it is task t
Woken(lock, t) ==
    ~lock.locked /\ lock.waiters # <<>> /\ Head(lock.waiters) = t

\* the woken waiter leaves the queue and holds the lock
TakeWoken(lock) == [locked |-> TRUE, waiters |-> Tail(lock.waiters)]

\* asyncio.Lock.release: the lock is free, the first waiter is woken
Release(lock) == [lock EXCEPT !.locked = FALSE]

\* get_client, lines 29-39, under the lock: create the client when none is set
CreateIfNone(h) ==
    IF h._client = None
    THEN [h EXCEPT !._client = ClientRef(Len(h.clients) + 1),
                   !.clients = Append(@, AsyncClient)]
    ELSE h

\* get_client called by task t (resumed: t was woken in the lock's queue):
\* the manager afterwards, whether t now waits for the lock, the client
\* returned and whether this call created it
get_client(h, t, resumed) ==
    IF resumed
    THEN LET g == CreateIfNone([h EXCEPT !._lock = TakeWoken(@)]) IN
         [http |-> [g EXCEPT !._lock = Release(@)], blocked |-> FALSE,
          client |-> g._client, created |-> h._client = None]
    ELSE IF h._client # None
    THEN [http |-> h, blocked |-> FALSE, client |-> h._client, created |-> FALSE]
    ELSE IF Acquirable(h._lock)
    THEN LET g == CreateIfNone(h) IN
         [http |-> g, blocked |-> FALSE, client |-> g._client, created |-> TRUE]
    ELSE [http |-> [h EXCEPT !._lock = Enqueue(@, t)], blocked |-> TRUE,
          client |-> None, created |-> FALSE]

\* get_http_client() as an adapter awaits it at the start of analyze(), in a
\* process where no other task holds or awaits the manager's lock: the
\* manager afterwards
get_http_client(h) == get_client(h, 0, FALSE).http

----------------------------------------------------------------------------
(* error_handling.py *)

ServiceInitializationErrorOf(name, e) ==
    Exc("ServiceInitializationError",
        <<"Failed to initialize ", name, ": ">> \o e.msg)

\* mutant: the table gives LLMError the entry of ASRError
ERROR_MAPPINGSLlmAsAsr ==
    [ URLParserError |->
        [status |-> 400, code |-> 4001, message |-> <<"Failed to parse video URL">>],
      ASRError |->
        [status |-> 503, code |-> 5001,
         message |-> <<"ASR service is temporarily unavailable">>],
      LLMError |->
        [status |-> 503, code |-> 5001,
         message |-> <<"ASR service is temporarily unavailable">>],
      FileHandlerError |->
        [status |-> 500, code |-> 5003, message |-> <<"File processing error">>],
      OSSUploaderError |->
        [status |-> 503, code |-> 5004,
         message |-> <<"OSS service is temporarily unavailable">>],
      ServiceInitializationError |->
        [status |-> 500, code |-> 5005, message |-> <<"Service initialization failed">>] ]

\* ErrorHandler.ERROR_MAPPINGS: exception type -> (HTTP status, business code,
\* default user message)
ERROR_MAPPINGS ==
    [ URLParserError |->
        [status |-> 400, code |-> 4001, message |-> <<"Failed to parse video URL">>],
      ASRError |->
        [status |-> 503, code |-> 5001,
         message |-> <<"ASR service is temporarily unavailable">>],
      LLMError |->
        [status |-> 502, code |-> 5002, message |-> <<"LLM service error occurred">>],
      FileHandlerError |->
        [status |-> 500, code |-> 5003, message |-> <<"File processing error">>],
      OSSUploaderError |->
        [status |-> 503, code |-> 5004,
         message |-> <<"OSS service is temporarily unavailable">>],
      ServiceInitializationError |->
        [status |-> 500, code |-> 5005, message |-> <<"Service initialization failed">>] ]

\* mutant: the error envelope carries the success code
HTTPExceptionCodeZero(status, code, message) ==
    [kind |-> "http_error", status |-> status, code |-> 0, success |-> FALSE,
     data |-> None, message |-> message, processing_time |-> "elapsed"]

\* an HTTPException carrying the error envelope as its detail
HTTPException(status, code, message) ==
    [kind |-> "http_error", status |-> status, code |-> code, success |-> FALSE,
     data |-> None, message |-> message, processing_time |-> "elapsed"]

\* mutant: an unmapped exception's own message is put in the envelope
create_error_responseLeaks(exception) ==
    IF exception.type \in DOMAIN ERROR_MAPPINGS
    THEN HTTPException(ERROR_MAPPINGS[exception.type].status,
                       ERROR_MAPPINGS[exception.type].code,
                       exception.msg)
    ELSE HTTPException(500, 9999, exception.msg)

\* ErrorHandler.create_error_response: type(exception) is looked up in the
\* table; a mapped type keeps str(exception) as its message
create_error_response(exception) ==
    IF exception.type \in DOMAIN ERROR_MAPPINGS
    THEN HTTPException(ERROR_MAPPINGS[exception.type].status,
                       ERROR_MAPPINGS[exception.type].code,
                       exception.msg)
    ELSE HTTPException(500, 9999, <<"An internal server error occurred">>)

create_validation_error(message) == HTTPException(422, 4002, message)

create_success_response(data) ==
    [kind |-> "success", status |-> 200, code |-> 0, success |-> TRUE,
     data |-> data, message |-> <<"Processing completed successfully">>,
     processing_time |-> "elapsed"]

handle_service_exception(exception) == create_error_response(exception)

create_json_decode_error == create_validation_error(<<"Invalid JSON format in request body">>)

create_missing_input_error ==
    HTTPException(400, 4002, <<"Either URL or file must be provided">>)

create_form_url_error ==
    create_validation_error(<<"URL should be sent as JSON, not form data">>)

\* parse_video's two except clauses: an HTTPException is re-raised as it is,
\* any other exception goes through handle_service_exception
ExceptionOutcome(e) ==
    IF e.kind = "http_error" THEN e ELSE handle_service_exception(e)

----------------------------------------------------------------------------
(* llm_service.py: result models *)

AnalysisDetail(hook, core, cta) ==
    [hook |-> hook, core |-> core, cta |-> cta, key_quotes |-> None]

AnalysisResult(raw, cleaned, analysis) ==
    [raw_transcript |-> raw, cleaned_transcript |-> cleaned, analysis |-> analysis]

\* what an adapter returns for a narrative answer, and for an answer that
\* carries schema_type = v3_tech_spec (llm_service.py:134-143)
NarrativeResults ==
    { AnalysisResult(<<"raw">>, <<"cleaned">>, AnalysisDetail(<<h>>, <<"c">>, <<"a">>)) :
        h \in Hooks }

TechResults ==
    { AnalysisResult(<<>>, <<"{schema_type: v3_tech_spec}">>,
                     AnalysisDetail(<<>>, <<>>, <<>>)) }

AnalysisResults == NarrativeResults \cup TechResults

\* getattr(obj, name): raises AttributeError when the model has no such field
HasAttr(obj, name) == name \in DOMAIN obj

----------------------------------------------------------------------------
(* Failover: LLMRouter.analyze and LLMExecutionService.execute_with_failover *)

Impls == {"LLMRouter", "LLMExecutionService"}

PrimaryLabel(impl) ==
    IF impl = "LLMRouter" THEN "Primary (Kimi) error: " ELSE "Primary (DeepSeek) error: "

FallbackLabel(impl) ==
    IF impl = "LLMRouter" THEN "Fallback (DeepSeek) error: " ELSE "Fallback (Kimi) error: "

Str(s) == [kind |-> "str", s |-> s]

Return(v) == [kind |-> "return", value |-> v]

\* what one call of a candidate's analyze() can do.  "adapters" are
\* KimiAdapter/DeepSeekAdapter, which convert every failure to LLMError;
\* "any" is an arbitrary object with an analyze() method.
CandidateOutcomes(candidates) ==
    { Return(r) : r \in AnalysisResults }
    \cup { Exc("LLMError", m) : m \in ErrTexts }
    \cup (IF candidates = "any" THEN { Exc("RuntimeError", <<"boom">>) } ELSE {})

FoIdle ==
    [pc |-> "idle", impl |-> "LLMRouter", candidates |-> "adapters", text |-> <<>>,
     primary_error |-> None, fallback_error |-> None, result |-> None,
     exc |-> None, log |-> <<>>]

FoStart(impl, candidates, text) ==
    [FoIdle EXCEPT !.pc = "primary", !.impl = impl, !.candidates = candidates,
                   !.text = text]

\* mutant: the aggregated message names only the leg that failed last
AllFailedMessageFallbackOnly(impl, primary_error, fallback_error) ==
    <<"All LLM services failed.", "\n", FallbackLabel(impl)>> \o fallback_error

AllFailedMessage(impl, primary_error, fallback_error) ==
    <<"All LLM services failed.", "\n", PrimaryLabel(impl)>> \o primary_error
    \o <<"\n", FallbackLabel(impl)>> \o fallback_error

\* mutant: the fallback is consulted even when the primary answered
PrimaryStepAlwaysFallback(f, out) ==
    LET g == [f EXCEPT !.log = Append(@, [who |-> "primary", text |-> f.text,
                                          out |-> out])] IN
    IF out.kind = "return"
    THEN [g EXCEPT !.pc = "fallback", !.result = out.value, !.primary_error = Str(<<>>)]
    ELSE IF out.type = "LLMError"
    THEN [g EXCEPT !.pc = "fallback", !.primary_error = Str(out.msg)]
    ELSE [g EXCEPT !.pc = "raised", !.exc = out]

\* mutant: any exception of the primary leads to the fallback
PrimaryStepCatchesAll(f, out) ==
    LET g == [f EXCEPT !.log = Append(@, [who |-> "primary", text |-> f.text,
                                          out |-> out])] IN
    IF out.kind = "return"
    THEN [g EXCEPT !.pc = "returned", !.result = out.value]
    ELSE [g EXCEPT !.pc = "fallback", !.primary_error = Str(out.msg)]

\* try: return await self.primary.analyze(text) / except LLMError
PrimaryStep(f, out) ==
    LET g == [f EXCEPT !.log = Append(@, [who |-> "primary", text |-> f.text,
                                          out |-> out])] IN
    IF out.kind = "return"
    THEN [g EXCEPT !.pc = "returned", !.result = out.value]
    ELSE IF out.type = "LLMError"
    THEN [g EXCEPT !.pc = "fallback", !.primary_error = Str(out.msg)]
    ELSE [g EXCEPT !.pc = "raised", !.exc = out]

\* mutant: the fallback's answer is replaced by an empty result
FallbackStepEmptyResult(f, out) ==
    LET g == [f EXCEPT !.log = Append(@, [who |-> "fallback", text |-> f.text,
                                          out |-> out])] IN
    IF out.kind = "return"
    THEN [g EXCEPT !.pc = "returned",
                   !.result = AnalysisResult(<<>>, <<>>, AnalysisDetail(<<>>, <<>>, <<>>))]
    ELSE IF out.type = "LLMError"
    THEN [g EXCEPT !.pc = "raised", !.fallback_error = Str(out.msg),
                   !.exc = Exc("LLMError",
                               AllFailedMessage(f.impl, f.primary_error.s, out.msg))]
    ELSE [g EXCEPT !.pc = "raised", !.exc = out]

\* try: return await self.fallback.analyze(text) / except LLMError: raise LLMError(...)
FallbackStep(f, out) ==
    LET g == [f EXCEPT !.log = Append(@, [who |-> "fallback", text |-> f.text,
                                          out |-> out])] IN
    IF out.kind = "return"
    THEN [g EXCEPT !.pc = "returned", !.result = out.value]
    ELSE IF out.type = "LLMError"
    THEN [g EXCEPT !.pc = "raised", !.fallback_error = Str(out.msg),
                   !.exc = Exc("LLMError",
                               AllFailedMessage(f.impl, f.primary_error.s, out.msg))]
    ELSE [g EXCEPT !.pc = "raised", !.exc = out]

\* the primary's analyze(); KimiAdapter and DeepSeekAdapter begin with
\* client = await get_http_client()
FoPrimary ==
    /\ fo.pc = "primary"
    /\ http' = IF fo.candidates = "adapters" THEN get_http_client(http) ELSE http
    /\ UNCHANGED tasks
    /\ \E out \in CandidateOutcomes(fo.candidates) : fo' = PrimaryStep(fo, out)
    /\ UNCHANGED pipeVars

FoFallback ==
    /\ fo.pc = "fallback"
    /\ http' = IF fo.candidates = "adapters" THEN get_http_client(http) ELSE http
    /\ UNCHANGED tasks
    /\ \E out \in CandidateOutcomes(fo.candidates) : fo' = FallbackStep(fo, out)
    /\ UNCHANGED pipeVars

----------------------------------------------------------------------------
(* asr_service.py: ASRService *)

MISSING_KEY_MESSAGE ==
    <<"DASHSCOPE_API_KEY or ALIYUN_ASR_API_KEY environment variable not set.">>

\* what Transcription.async_call (under asyncio.wait_for) can do
SubmitOutcomes == {"timeout", "error", "no_response", "no_output", "no_task_id", "ok"}

\* what Transcription.wait (under asyncio.wait_for) can do: time out, raise,
\* or answer with a response that _process_transcription_response reads
WaitResponses ==
    { [status_ok |-> FALSE, results |-> "none", fetch |-> "none", text |-> <<>>],
      [status_ok |-> TRUE, results |-> "none", fetch |-> "none", text |-> <<>>],
      [status_ok |-> TRUE, results |-> "not_dict", fetch |-> "none", text |-> <<>>],
      [status_ok |-> TRUE, results |-> "failed_download", fetch |-> "none", text |-> <<>>],
      [status_ok |-> TRUE, results |-> "failed_other", fetch |-> "none", text |-> <<>>],
      [status_ok |-> TRUE, results |-> "no_url", fetch |-> "none", text |-> <<>>],
      [status_ok |-> TRUE, results |-> "url", fetch |-> "urlopen_error", text |-> <<>>],
      [status_ok |-> TRUE, results |-> "url", fetch |-> "bad_json", text |-> <<>>],
      [status_ok |-> TRUE, results |-> "url", fetch |-> "no_transcripts", text |-> <<>>],
      [status_ok |-> TRUE, results |-> "url", fetch |-> "no_text", text |-> <<>>] }
    \cup { [status_ok |-> TRUE, results |-> "url", fetch |-> "text", text |-> t] :
             t \in TranscriptTexts }

WaitOutcomes ==
    { [kind |-> "timeout"], [kind |-> "error"] }
    \cup { [kind |-> "response", response |-> r] : r \in WaitResponses }

ASRError(msg) == Exc("ASRError", msg)

TimeoutMessage ==
    <<"ASR transcription timed out after ", FloatStr(ASR_TIMEOUT), " seconds">>

\* _process_transcription_response: the text, or the ASRError it raises.
\* results: no entry, a first entry that is no dict ('abc'), a FAILED
\* subtask with code FILE_DOWNLOAD_FAILED or another code (DECODE_ERROR,
\* message 'bad audio'), a dict without transcription_url, or one with it;
\* fetch: urlopen raises, the document is no JSON, has no transcripts, has
\* a first transcript without "text" ({'no_text': 1}), or has the text.
ProcessTranscriptionResponse(r) ==
    IF ~r.status_ok THEN ASRError(<<"Transcription failed: ", "Unknown error">>)
    ELSE IF r.results = "none" THEN ASRError(<<"No transcription results returned">>)
    ELSE IF r.results = "not_dict"
    THEN ASRError(<<"Invalid result format: ", "<class 'str'>">>)
    ELSE IF r.results = "failed_download"
    THEN ASRError(<<"DashScope cannot access the file. Please ensure the file is publicly accessible via URL.">>)
    ELSE IF r.results = "failed_other"
    THEN ASRError(<<"Transcription failed: ", "DECODE_ERROR", " - ", "bad audio">>)
    ELSE IF r.results = "no_url"
    THEN ASRError(<<"No transcription_url in result. Available keys: ", "[]">>)
    ELSE IF r.fetch = "urlopen_error"
    THEN ASRError(<<"Failed to process transcription response: ", "urlopen failed">>)
    ELSE IF r.fetch = "bad_json"
    THEN ASRError(<<"Failed to parse transcription result: ", "bad json">>)
    ELSE IF r.fetch = "no_transcripts" THEN Return(<<>>)
    ELSE IF r.fetch = "no_text"
    THEN ASRError(<<"Invalid transcript format: ", "{'no_text': 1}">>)
    ELSE Return(r.text)

\* transcribe_from_url up to the end of the submit phase: None when a task id
\* was obtained, else the ASRError raised
SubmitResult(o) ==
    IF o = "timeout" THEN ASRError(TimeoutMessage)
    ELSE IF o = "error" THEN ASRError(<<"ASR service error: ", "submit failed">>)
    ELSE IF o = "no_response" THEN ASRError(<<"No response from DashScope API">>)
    ELSE IF o = "no_output"
    THEN ASRError(<<"DashScope API error (status: ", "Unknown", "): ", "Unknown error">>)
    ELSE IF o = "no_task_id"
    THEN ASRError(<<"DashScope API error - no task_id (status: ", "Unknown", "): ",
                    "Unknown error">>)
    ELSE None

\* transcribe_from_url from the wait phase on
WaitResult(o) ==
    IF o.kind = "timeout" THEN ASRError(TimeoutMessage)
    ELSE IF o.kind = "error" THEN ASRError(<<"ASR service error: ", "wait failed">>)
    ELSE ProcessTranscriptionResponse(o.response)

\* transcribe_from_file, OSS mode: what upload_file raising OSSUploaderError
\* becomes (asr_service.py:191-194)
UploadFailure(e) ==
    ASRError(<<"Failed to upload file to OSS before transcription: ">> \o e.msg)

\* transcribe_from_file, OSS mode: any other exception of the inner try,
\* including an ASRError of transcribe_from_url (asr_service.py:195-198)
FileTranscriptionFailure(e) ==
    ASRError(<<"An unexpected error occurred during file transcription: ">> \o e.msg)

\* the transcription of a request before it starts.  main.py constructs
\* ASRService (the DashScope backend) and never passes analysis_mode, so a
\* request always transcribes in "general" mode.
AsrIdle ==
    [via |-> "none", url |-> <<>>, error |-> None, backend |-> "dashscope",
     mode |-> "general", hotword |-> None, elapsed |-> 0]

----------------------------------------------------------------------------
(* asr_service.py / asr_nls_service.py: analysis mode and hotwords *)

Backends == {"dashscope", "nls"}

Modes == {"general", "tech"}

\* ALIYUN_TECH_HOTWORD_ID: unset, blank, or set
HotwordEnvs == { None, [kind |-> "str", s |-> <<" ">>],
                 [kind |-> "str", s |-> <<"vocab-1", " ">>],
                 [kind |-> "str", s |-> <<"\f", "vocab-1", "\f">>] }

\* os.getenv("ALIYUN_TECH_HOTWORD_ID", "").strip()
HotwordId(env) == IF env = None THEN <<>> ELSE Strip(env.s)

\* mutant: the task is submitted for a fixed URL, not for the one given
DashscopeApiParamsFixedUrl(video_url, analysis_mode, env) ==
    [model |-> "paraformer-v2", file_urls |-> <<<<"https://x/video.mp4">>>>,
     language_hints |-> <<"zh", "en">>]

\* ASRService.transcribe_from_url: api_params of Transcription.async_call.
\* The tech branch only logs; nothing is added to the parameters.
DashscopeApiParams(video_url, analysis_mode, env) ==
    [model |-> "paraformer-v2", file_urls |-> <<video_url>>,
     language_hints |-> <<"zh", "en">>]

\* NLSASRService.transcribe_from_url: the vocabulary_id handed to _submit_task
NlsVocabularyId(analysis_mode, env) ==
    IF analysis_mode = "tech" THEN [kind |-> "str", s |-> HotwordId(env)] ELSE None

\* NLSASRService._submit_task: task_config, with vocabulary_id when truthy
NlsTaskConfig(file_url, vocabulary_id) ==
    IF vocabulary_id # None /\ vocabulary_id.s # <<>>
    THEN [appkey |-> "appkey", file_link |-> file_url, version |-> "4.0",
          enable_words |-> FALSE, enable_sample_rate_adaptive |-> TRUE,
          enable_inverse_text_normalization |-> TRUE,
          vocabulary_id |-> vocabulary_id.s]
    ELSE [appkey |-> "appkey", file_link |-> file_url, version |-> "4.0",
          enable_words |-> FALSE, enable_sample_rate_adaptive |-> TRUE,
          enable_inverse_text_normalization |-> TRUE]

\* the parameters of the submit call of a backend
SubmitParams(backend, url, analysis_mode, env) ==
    IF backend = "dashscope" THEN DashscopeApiParams(url, analysis_mode, env)
    ELSE NlsTaskConfig(url, NlsVocabularyId(analysis_mode, env))

SubmitOp(backend) == IF backend = "dashscope" THEN "asr.async_call" ELSE "nls.SubmitTask"

WaitOp(backend) == IF backend = "dashscope" THEN "asr.wait" ELSE "nls.GetTaskResult"

NLSASRError(msg) == Exc("NLSASRError", msg)

\* what client.do_action_with_exception(SubmitTask) can do
NlsSubmitOutcomes == {"ok", "bad_status", "no_task_id", "error"}

\* _submit_task: None when a task id was obtained, else the NLSASRError raised
NlsSubmitResult(o) ==
    IF o = "bad_status"
    THEN NLSASRError(<<"submit task failed: ", "40000000", " - ", "Unknown error">>)
    ELSE IF o = "no_task_id" THEN NLSASRError(<<"submit task returned no TaskId">>)
    ELSE IF o = "error" THEN NLSASRError(<<"submit task failed: ", "sdk error">>)
    ELSE None

\* elapsed times, in seconds, at which the top of the polling loop can find
\* the timeout exceeded
NlsTimeoutElapsed == {121, 123, 243}

\* how _wait_for_result can end: the elapsed time exceeds the timeout,
\* _query_task raises, the answer is a JSON document that is no object
\* ([]), the status is a failure, or the status is success
NlsWaitOutcomes ==
    { [kind |-> "query_error"], [kind |-> "not_object"],
      [kind |-> "failed"], [kind |-> "success", text |-> <<>>] }
    \cup { [kind |-> "timeout", elapsed |-> e] : e \in NlsTimeoutElapsed }
    \cup { [kind |-> "success", text |-> t] : t \in TranscriptTexts \ {<<>>} }

\* _wait_for_result as transcribe_from_url awaits it: the transcript, or
\* the NLSASRError raised; the AttributeError of result.get on an answer
\* that is no object is raised again by transcribe_from_url (lines
\* 351-354) as NLSASRError
NlsWaitResult(o) ==
    IF o.kind = "timeout"
    THEN NLSASRError(<<"task timed out: waited ", FloatStr(o.elapsed), " s">>)
    ELSE IF o.kind = "query_error" THEN NLSASRError(<<"query task failed: ", "sdk error">>)
    ELSE IF o.kind = "not_object"
    THEN NLSASRError(<<"transcription failed: ", "'list' object has no attribute 'get'">>)
    ELSE IF o.kind = "failed" THEN NLSASRError(<<"task failed: ", "41050001", " - ", "">>)
    ELSE Return(o.text)

SubmitOutcomesOf(backend) ==
    IF backend = "dashscope" THEN SubmitOutcomes ELSE NlsSubmitOutcomes

SubmitResultOf(backend, o) ==
    IF backend = "dashscope" THEN SubmitResult(o) ELSE NlsSubmitResult(o)

WaitOutcomesOf(backend) ==
    IF backend = "dashscope" THEN WaitOutcomes ELSE NlsWaitOutcomes

WaitResultOf(backend, o) ==
    IF backend = "dashscope" THEN WaitResult(o) ELSE NlsWaitResult(o)

\* transcribe_from_file when upload_file raised OSSUploaderError e
UploadFailureOf(backend, e) ==
    IF backend = "dashscope" THEN UploadFailure(e)
    ELSE NLSASRError(<<"upload file failed: ">> \o e.msg)

----------------------------------------------------------------------------
(* file_handler.py *)

\* mutant: the file name without its unique prefix
TempPathNameOnly(unique_id, safe_filename) == [uuid |-> 0, name |-> safe_filename]

\* self.temp_dir / f"{unique_id}-{safe_filename}"
TempPath(unique_id, safe_filename) == [uuid |-> unique_id, name |-> safe_filename]

\* tokens that are runs of [A-Za-z0-9]
AlnumRuns == {"a", "b", "mp4", "unknown"}

\* tokens that are one character outside ASCII with no ASCII decomposition
NonAscii == {"<U+4E2D>"}

\* os.sep and os.path.altsep (None on POSIX)
PathSeps == {"/"}

RECURSIVE Underscored(_)
Underscored(s) ==
    IF s = <<>> THEN <<>>
    ELSE IF Head(s) \in Whitespace THEN <<"_">> \o Underscored(LStrip(s))
    ELSE <<Head(s)>> \o Underscored(Tail(s))

\* "_".join(s.split())
SplitJoin(s) == Underscored(Strip(s))

RECURSIVE StripChars(_, _)
\* s.strip(chars)
StripChars(s, chars) ==
    IF s # <<>> /\ Head(s) \in chars THEN StripChars(Tail(s), chars)
    ELSE IF s # <<>> /\ s[Len(s)] \in chars
    THEN StripChars(SubSeq(s, 1, Len(s) - 1), chars)
    ELSE s

\* werkzeug.utils.secure_filename on POSIX: NFKD + encode("ascii", "ignore")
\* turns the space-like characters into blanks and drops what else is not
\* ASCII, path separators become blanks, runs of whitespace become one "_",
\* characters outside [A-Za-z0-9_.-] are removed, and "." and "_" are
\* stripped from both ends
secure_filename(filename) ==
    LET nfkd == [i \in 1..Len(filename) |->
                   IF filename[i] \in SpaceLike THEN " " ELSE filename[i]]
        ascii == SelectSeq(nfkd, LAMBDA c : c \notin NonAscii \cup OtherWhitespace)
        blanked == [i \in 1..Len(ascii) |->
                      IF ascii[i] \in PathSeps THEN " " ELSE ascii[i]]
        joined == SplitJoin(blanked)
        kept == SelectSeq(joined, LAMBDA c : c \in AlnumRuns \cup {"_", ".", "-"})
    IN StripChars(kept, {".", "_"})

\* save_upload_file, lines 58-59: secure_filename(file.filename or "unknown")
SafeFilename(file) ==
    IF file.filename = None \/ file.filename.s = <<>>
    THEN secure_filename(<<"unknown">>)
    ELSE secure_filename(file.filename.s)

TempFileInfo(path, name, size) ==
    [kind |-> "TempFileInfo", file_path |-> path, original_filename |-> name,
     size |-> size]

\* save_upload_file: "ok", or a failure before or after the file was created
\* (aiofiles.open creates it; f.write and file_path.stat can still fail)
SaveOutcomes == {"ok", "fail_before_create", "fail_after_create"}

\* FileHandler.cleanup: unlink an existing file; PermissionError/OSError are
\* swallowed and leave the file in place
UnlinkOutcomes == {"removed", "oserror"}

\* mutant: cleanup that never unlinks
FileHandlerCleanupKeeps(d, file_path, unlink) == d

FileHandlerCleanup(d, file_path, unlink) ==
    IF file_path \in d
    THEN (IF unlink = "removed" THEN d \ {file_path} ELSE d)
    ELSE d

----------------------------------------------------------------------------
(* main.py: requests *)

\* the "url" member of a JSON object, with s = str(data["url"]): absent,
\* null, a string, or a number
UrlFields ==
    { [kind |-> "missing"], [kind |-> "null"], [kind |-> "str", s |-> <<>>],
      [kind |-> "str", s |-> <<" ">>], [kind |-> "str", s |-> <<"\n">>],
      [kind |-> "str", s |-> <<"\f">>],
      [kind |-> "str", s |-> <<"\t", "look", "\n">>],
      [kind |-> "number", s |-> <<"0">>] }
    \cup { [kind |-> "str", s |-> <<" ", t, " ">>] : t \in ShareTexts }

\* request bodies: bytes that are no UTF-8, text that is no JSON, a JSON
\* object, or another JSON value (a string is given by its tokens)
JsonBodies ==
    { [json |-> "not_utf8"], [json |-> "invalid"] }
    \cup { [json |-> "object", url |-> u] : u \in UrlFields }
    \cup { [json |-> "number"], [json |-> "null"],
           [json |-> "array", items |-> <<>>], [json |-> "array", items |-> <<"url">>],
           [json |-> "string", s |-> <<"url">>],
           [json |-> "string", s |-> <<"x", "url", "x">>],
           [json |-> "string", s |-> <<"look">>] }

FormUrls == { None } \cup { Str(<<t>>) : t \in ShareTexts }

\* an UploadFile: its filename (None when the part has none) and the length
\* of its content
UploadFiles ==
    { [kind |-> "UploadFile", filename |-> n, size |-> z] :
        n \in {None} \cup { Str(f) : f \in Filenames }, z \in FileSizes }

Uploads == { None } \cup UploadFiles

Request(ctype, body, url, file) ==
    [kind |-> "request", ctype |-> ctype, body |-> body, url |-> url, file |-> file]

Requests ==
    { Request("application/json", b, None, None) : b \in JsonBodies }
    \cup { Request("multipart/form-data", None, u, f) : u \in FormUrls, f \in Uploads }
    \cup { Request("application/x-www-form-urlencoded", None, u, None) : u \in FormUrls }
    \cup { Request("text/plain", None, None, None) }

\* "url" in data and data["url"] is not None and str(data["url"]).strip(),
\* for a JSON object
HasUrl(body) ==
    body.url.kind \notin {"missing", "null"} /\ Strip(body.url.s) # <<>>

\* the same condition for any decoded JSON value: `in` raises TypeError on
\* a number or null, and ["url"] raises TypeError on a list that has the
\* item "url" or a string that has the substring "url"
UrlCondition(data) ==
    IF data.json = "object" THEN Return(HasUrl(data))
    ELSE IF data.json = "array"
    THEN (IF Contains(data.items, "url")
          THEN Exc("TypeError", <<"list indices must be integers or slices, not str">>)
          ELSE Return(FALSE))
    ELSE IF data.json = "string"
    THEN (IF Contains(data.s, "url")
          THEN Exc("TypeError", <<"string indices must be integers, not 'str'">>)
          ELSE Return(FALSE))
    ELSE Exc("TypeError",
             <<"argument of type ",
               IF data.json = "number" THEN "'int'" ELSE "'NoneType'",
               " is not iterable">>)

----------------------------------------------------------------------------
(* main.py: WorkflowOrchestrator *)

ServiceNames == {"ShareURLParser", "FileHandler", "OSSUploader", "LLMRouter"}

\* WorkflowOrchestrator.__init__ for the request numbered id: every handle
\* is None, no checkpoint taken, no "Failed to initialize ..." entry in the
\* request's perf_logger; built counts the factory calls of each getter
WorkflowOrchestrator(id) ==
    [id |-> id, handles |-> [n \in ServiceNames |-> None],
     built |-> [n \in ServiceNames |-> 0], checkpoints |-> {}, init_failed |-> {}]

NewOrchestrator == WorkflowOrchestrator(0)

\* outcome of running a service factory
FactoryOutcomes == {"ok", "fail"}

FactoryError(name) == Exc("ValueError", <<name, " cannot be built">>)

\* the object a factory returns: a new one at every call
Instance(name, owner, serial) ==
    [kind |-> "instance", of |-> name, owner |-> owner, serial |-> serial]

\* mutant: the getter runs its factory at every call
GetHandleRebuilds(o, name, factory) ==
    LET p == [o EXCEPT !.built[name] = @ + 1] IN
    IF factory = "ok"
    THEN [orch |-> [p EXCEPT !.handles[name] = Instance(name, o.id, p.built[name])],
          exc |-> None, built |-> TRUE]
    ELSE [orch |-> [p EXCEPT !.init_failed = @ \cup {name}],
          exc |-> ServiceInitializationErrorOf(name, FactoryError(name)),
          built |-> TRUE]

\* the _get_* getters: build the handle on first use; a factory failure is
\* logged and raised as ServiceInitializationError
GetHandle(o, name, factory) ==
    LET p == [o EXCEPT !.built[name] = @ + 1] IN
    IF o.handles[name] # None THEN [orch |-> o, exc |-> None, built |-> FALSE]
    ELSE IF factory = "ok"
    THEN [orch |-> [p EXCEPT !.handles[name] = Instance(name, o.id, p.built[name])],
          exc |-> None, built |-> TRUE]
    ELSE [orch |-> [p EXCEPT !.init_failed = @ \cup {name}],
          exc |-> ServiceInitializationErrorOf(name, FactoryError(name)),
          built |-> TRUE]

Checkpoint(o, name) == [o EXCEPT !.checkpoints = @ \cup {name}]

VideoInfo(video_id, platform, title, download_url) ==
    [kind |-> "VideoInfo", video_id |-> video_id, platform |-> platform,
     title |-> title, download_url |-> download_url]

\* a token that the pattern https?://[^\s]+ matches
IsUrl(tok) == tok \in DouyinUrls \cup XhsUrls \cup OtherUrls

\* _extract_url_from_text: the first URL of the text
extract_url_from_text(text) ==
    IF \E i \in 1..Len(text) : IsUrl(text[i])
    THEN Return(text[CHOOSE i \in 1..Len(text) :
                        IsUrl(text[i]) /\ \A j \in 1..(i - 1) : ~IsUrl(text[j])])
    ELSE Exc("URLParserError", <<"No URL found in the provided text">>)

\* mutant: every domain is taken for a supported platform
identify_platformAnyDomain(url) == Return("douyin")

\* _identify_platform: "douyin.com" in url / "xiaohongshu.com" in url
identify_platform(url) ==
    IF url \in DouyinUrls THEN Return("douyin")
    ELSE IF url \in XhsUrls THEN Return("xiaohongshu")
    ELSE Exc("URLParserError", <<"Unsupported platform in URL: ", url>>)

RECURSIVE Replace(_, _, _)
\* s.replace(old, new)
Replace(s, old, new) ==
    IF s = <<>> THEN <<>>
    ELSE (IF Head(s) = old THEN new ELSE <<Head(s)>>) \o Replace(Tail(s), old, new)

\* re.sub(r'[\\/:*?"<>|]', "_", desc)
SubIllegal(desc) ==
    [i \in 1..Len(desc) |->
        IF desc[i] \in {"\\", "/", ":", "*", "?", "\"", "<", ">", "|"}
        THEN "_" ELSE desc[i]]

\* the Douyin pages that parse: desc and play_addr.url_list[0]
DouyinPages ==
    { [kind |-> "page", desc |-> d,
       url |-> IF d = <<"T">> THEN <<"https://x/video.mp4">>
               ELSE <<"https://x/", "playwm", "/video.mp4">>] : d \in Descs }

\* what one attempt of _parse_douyin can do: a network error (ConnectError,
\* TimeoutException, RequestError), another exception inside the try block,
\* or a page that parses.  Messages the source has in Chinese are given in
\* English between [zh] marks.
DouyinAttemptOutcomes ==
    { [kind |-> "network_error", msg |-> <<"fetch failed">>],
      [kind |-> "error", msg |-> <<"[zh] cannot extract the video ID from the URL">>],
      [kind |-> "error", msg |-> <<"Client error '404'">>],
      [kind |-> "error", msg |-> <<"[zh] failed to parse the video information from the HTML">>],
      [kind |-> "error",
       msg |-> <<"Failed to parse Douyin video data: Invalid JSON in _ROUTER_DATA">>],
      [kind |-> "error",
       msg |-> <<"[zh] cannot parse video or gallery information from the JSON">>],
      [kind |-> "error",
       msg |-> <<"Failed to parse Douyin video data: Missing required fields - ",
                 "'video'">>] }
    \cup DouyinPages

\* max_retries + 1
DouyinAttempts == 3

\* _parse_douyin_router_data_optimized, lines 403-424
DouyinVideoInfo(page, video_id) ==
    VideoInfo(video_id, "douyin",
              SubIllegal(IF Strip(page.desc) # <<>> THEN Strip(page.desc)
                         ELSE <<"douyin_", video_id>>),
              Replace(page.url, "playwm", <<"play">>))

RECURSIVE parse_douyin(_, _, _)
\* _parse_douyin from attempt number n on: a network error is retried, any
\* other exception is raised as URLParserError at once, and when every
\* attempt met a network error the last one is reported
parse_douyin(attempts, n, last_error) ==
    IF n > DouyinAttempts
    THEN Exc("URLParserError",
             <<"[zh] after ", ToString(DouyinAttempts),
               "[zh] attempts the Douyin server still cannot be reached.", "\n",
               "[zh] this may be a network problem, a geographic restriction, or a VPN is needed.",
               "\n", "[zh] original error: ">> \o last_error)
    ELSE IF attempts[n].kind = "network_error"
    THEN parse_douyin(attempts, n + 1, attempts[n].msg)
    ELSE IF attempts[n].kind = "page"
    THEN Return(DouyinVideoInfo(attempts[n], "v1"))
    ELSE Exc("URLParserError", <<"Failed to parse Douyin video: ">> \o attempts[n].msg)

\* what the one fetch of _parse_xiaohongshu and the reading of its page can
\* do: an exception, or a page with or without a title
XhsOutcomes ==
    { [kind |-> "raise", type |-> "RequestError", msg |-> <<"fetch failed">>],
      [kind |-> "raise", type |-> "HTTPStatusError", msg |-> <<"Client error '404'">>],
      [kind |-> "raise", type |-> "IndexError", msg |-> <<"list index out of range">>],
      [kind |-> "raise", type |-> "AttributeError",
       msg |-> <<"'str' object has no attribute 'get'">>],
      [kind |-> "no_item_id"], [kind |-> "no_video_url"],
      [kind |-> "page", title |-> Str(<<"T">>)], [kind |-> "page", title |-> None] }

\* _parse_xiaohongshu: RequestError, JSONDecodeError, KeyError and IndexError
\* become URLParserError; every other exception leaves as it is
parse_xiaohongshu(o) ==
    IF o.kind = "raise"
    THEN (IF o.type \in {"RequestError", "JSONDecodeError", "KeyError", "IndexError"}
          THEN Exc("URLParserError", <<"Failed to parse Xiaohongshu video: ">> \o o.msg)
          ELSE Exc(o.type, o.msg))
    ELSE IF o.kind = "no_item_id"
    THEN Exc("URLParserError", <<"Could not extract item_id from Xiaohongshu URL">>)
    ELSE IF o.kind = "no_video_url"
    THEN Exc("URLParserError", <<"Could not find any video URL in the page.">>)
    ELSE Return(VideoInfo("v1", "xiaohongshu",
                          IF o.title # None THEN o.title.s ELSE <<"xiaohongshu_", "v1">>,
                          <<"https://x/video.mp4">>))

\* ShareURLParser.parse: the VideoInfo, or the exception it raises (no URL
\* in the text, unsupported platform, or what the platform's parser raises)
ParseOutcomes(share_text) ==
    LET url == extract_url_from_text(share_text) IN
    IF url.kind = "exception" THEN {url}
    ELSE LET platform == identify_platform(url.value) IN
         IF platform.kind = "exception" THEN {platform}
         ELSE IF platform.value = "douyin"
         THEN { parse_douyin(a, 1, <<>>) :
                  a \in [1..DouyinAttempts -> DouyinAttemptOutcomes] }
         ELSE { parse_xiaohongshu(o) : o \in XhsOutcomes }

\* OSSUploader.upload_file: the public URL, or OSSUploaderError for an
\* oss2 OssError and for any other exception (the local file is missing,
\* the endpoint has no "oss-" part)
UploadOutcomes ==
    { Return(<<"https://bucket.oss/audio/a.mp4">>),
      Exc("OSSUploaderError", <<"OSS upload failed: ", "denied">>),
      Exc("OSSUploaderError", <<"OSS uploader error: ", "disk read failed">>) }

AnalysisData(transcript, info, analysis) ==
    [kind |-> "AnalysisData", transcript |-> transcript,
     analysis |-> [info |-> info, llm_analysis |-> analysis]]

\* mutant: an exception leaves parse_video without running the finally block
ExceptExitSkipsFinally == "done"

\* pc after an exception left the try block of parse_video: the finally block
ExceptExit == "finally"

\* an exception e leaves the try block of parse_video
Raise(e) ==
    /\ outcome' = ExceptionOutcome(e)
    /\ pc' = ExceptExit

Call(op, arg, result) == [op |-> op, arg |-> arg, result |-> result]

Init ==
    /\ rid = 0
    /\ http = HTTPClientManager
    /\ tasks = <<>>
    /\ next_uuid = 1
    /\ pc = "idle"
    /\ req = None
    /\ orch = NewOrchestrator
    /\ temp_file_info = None
    /\ disk = {}
    /\ video_info = None
    /\ asr = AsrIdle
    /\ transcript_text = <<>>
    /\ fo = FoIdle
    /\ llm_analysis = [kind |-> "empty"]
    /\ outcome = None
    /\ response = None
    /\ calls = <<>>
    /\ cleanup_log = <<>>

\* parse_video, lines 484-511: a request arrives and gets its own orchestrator
ReceiveRequest ==
    /\ pc \in {"idle", "done"}
    /\ UNCHANGED sideVars
    /\ rid < MaxRequests
    /\ rid' = rid + 1
    /\ \E r \in Requests : req' = r
    /\ orch' = WorkflowOrchestrator(rid + 1)
    /\ temp_file_info' = None
    /\ video_info' = None
    /\ asr' = AsrIdle
    /\ transcript_text' = <<>>
    /\ fo' = FoIdle
    /\ llm_analysis' = [kind |-> "empty"]
    /\ outcome' = None
    /\ response' = None
    /\ calls' = <<>>
    /\ cleanup_log' = <<>>
    /\ pc' = "dispatch"
    /\ UNCHANGED <<next_uuid, disk>>

\* parse_video, lines 515-539
JsonRequest ==
    /\ pc = "dispatch"
    /\ UNCHANGED sideVars
    /\ req.ctype = "application/json"
    /\ IF req.body.json = "not_utf8"
       THEN Raise(Exc("UnicodeDecodeError",
                      <<"'utf-8' codec can't decode byte 0xff in position 0: invalid start byte">>))
       ELSE IF req.body.json = "invalid" THEN Raise(create_json_decode_error)
       ELSE IF UrlCondition(req.body).kind = "exception"
       THEN Raise(UrlCondition(req.body))
       ELSE IF UrlCondition(req.body).value
       THEN pc' = "url_parsing" /\ UNCHANGED outcome
       ELSE Raise(create_missing_input_error)
    /\ UNCHANGED <<rid, next_uuid, req, orch, temp_file_info, disk, video_info, asr,
                   transcript_text, fo, llm_analysis, response, calls, cleanup_log>>

\* parse_video, lines 542-570 up to the await of save_upload_file
MultipartRequest ==
    /\ pc = "dispatch"
    /\ UNCHANGED sideVars
    /\ req.ctype = "multipart/form-data"
    /\ IF req.file # None
       THEN \E factory \in FactoryOutcomes :
              LET g == GetHandle(orch, "FileHandler", factory) IN
              /\ orch' = g.orch
              /\ IF g.exc # None THEN Raise(g.exc)
                 ELSE pc' = "save_upload" /\ UNCHANGED outcome
       ELSE /\ UNCHANGED orch
            /\ IF req.url # None THEN Raise(create_form_url_error)
               ELSE Raise(create_missing_input_error)
    /\ UNCHANGED <<rid, next_uuid, req, temp_file_info, disk, video_info, asr,
                   transcript_text, fo, llm_analysis, response, calls, cleanup_log>>

\* parse_video, lines 573-587
FormEncodedRequest ==
    /\ pc = "dispatch"
    /\ UNCHANGED sideVars
    /\ req.ctype = "application/x-www-form-urlencoded"
    /\ IF req.url # None THEN Raise(create_form_url_error)
       ELSE Raise(create_missing_input_error)
    /\ UNCHANGED <<rid, next_uuid, req, orch, temp_file_info, disk, video_info, asr,
                   transcript_text, fo, llm_analysis, response, calls, cleanup_log>>

\* parse_video, lines 590-595
OtherRequest ==
    /\ pc = "dispatch"
    /\ UNCHANGED sideVars
    /\ req.ctype \notin {"application/json", "multipart/form-data",
                         "application/x-www-form-urlencoded"}
    /\ Raise(create_missing_input_error)
    /\ UNCHANGED <<rid, next_uuid, req, orch, temp_file_info, disk, video_info, asr,
                   transcript_text, fo, llm_analysis, response, calls, cleanup_log>>

\* FileHandler.save_upload_file, then the start of process_file_workflow
SaveUploadFile ==
    /\ pc = "save_upload"
    /\ UNCHANGED sideVars
    /\ next_uuid' = next_uuid + 1
    /\ \E o \in SaveOutcomes :
         LET path == TempPath(next_uuid, SafeFilename(req.file))
             info == TempFileInfo(path, SafeFilename(req.file), req.file.size) IN
         /\ disk' = IF o = "fail_before_create" THEN disk ELSE disk \cup {path}
         /\ IF o = "ok"
            THEN /\ temp_file_info' = info
                 /\ calls' = Append(calls, Call("save_upload_file", req.file, info))
                 /\ transcript_text' = <<"Processed file: ">> \o info.original_filename
                 /\ pc' = "file_asr_start"
                 /\ UNCHANGED outcome
            ELSE /\ temp_file_info' = None
                 /\ calls' = Append(calls, Call("save_upload_file", req.file, None))
                 /\ UNCHANGED transcript_text
                 /\ Raise(Exc("FileHandlerError",
                              <<"Failed to save uploaded file: ", "io error">>))
    /\ UNCHANGED <<rid, req, orch, video_info, asr, fo, llm_analysis, response,
                   cleanup_log>>

\* process_url_workflow, lines 162-177
UrlParsing ==
    /\ pc = "url_parsing"
    /\ UNCHANGED sideVars
    /\ \E factory \in FactoryOutcomes :
         LET g == GetHandle(orch, "ShareURLParser", factory) IN
         /\ orch' = g.orch
         /\ IF g.exc # None
            THEN /\ Raise(g.exc)
                 /\ UNCHANGED <<video_info, transcript_text, calls>>
            ELSE \E o \in ParseOutcomes(Strip(req.body.url.s)) :
                   /\ calls' = Append(calls, Call("parser.parse", Strip(req.body.url.s), o))
                   /\ IF o.kind = "return"
                      THEN /\ video_info' = o.value
                           /\ transcript_text' = <<"Video: ">> \o o.value.title
                           /\ pc' = "url_asr_start"
                           /\ UNCHANGED outcome
                      ELSE /\ Raise(o)
                           /\ UNCHANGED <<video_info, transcript_text>>
    /\ UNCHANGED <<rid, next_uuid, req, temp_file_info, disk, asr, fo, llm_analysis,
                   response, cleanup_log>>

\* process_url_workflow, lines 191-198: the except (ASRError, ValueError) clause
UrlAsrFallback(e) ==
    <<"Video: ">> \o video_info.title \o <<" (ASR failed: ">> \o e.msg \o <<")">>

\* process_file_workflow, lines 273-280: the except Exception clause
FileProcessingFallback(e) ==
    <<"File: ">> \o temp_file_info.original_filename \o <<" (Processing failed: ">>
    \o e.msg \o <<")">>

\* process_file_workflow, lines 266-273: exception types that are re-raised.
\* The source text of these lines is mis-indented ("raise asr_error" and the
\* next "except" share a line); it is read as the try statement it spells:
\* except (ASRError, ValueError, OSSUploaderError): raise / except Exception:
\* placeholder transcript / else: checkpoint.
FileReraised == {"ASRError", "ValueError", "OSSUploaderError"}

\* the transcription try block of the running workflow ends with exception e
TranscriptionFailed(e) ==
    /\ asr' = [asr EXCEPT !.error = e]
    /\ IF asr.via = "url"
       THEN /\ transcript_text' = UrlAsrFallback(e)
            /\ pc' = "llm_start"
            /\ UNCHANGED outcome
       ELSE IF e.type \in FileReraised
       THEN /\ Raise(e)
            /\ UNCHANGED transcript_text
       ELSE /\ transcript_text' = FileProcessingFallback(e)
            /\ pc' = "llm_start"
            /\ UNCHANGED outcome

\* an ASRError raised by transcribe_from_url, as it leaves the ASRService
\* method that main.py called
AsrServiceError(e) == IF asr.via = "url" THEN e ELSE FileTranscriptionFailure(e)

\* process_url_workflow, line 182: ASRService() needs an API key
UrlAsrStart ==
    /\ pc = "url_asr_start"
    /\ UNCHANGED sideVars
    /\ \E key \in BOOLEAN :
         IF key
         THEN /\ asr' = [AsrIdle EXCEPT !.via = "url", !.url = video_info.download_url]
              /\ pc' = "asr_submit"
              /\ UNCHANGED <<transcript_text, outcome>>
         ELSE /\ asr' = [AsrIdle EXCEPT !.via = "url",
                                        !.error = Exc("ValueError", MISSING_KEY_MESSAGE)]
              /\ transcript_text' = UrlAsrFallback(Exc("ValueError", MISSING_KEY_MESSAGE))
              /\ pc' = "llm_start"
              /\ UNCHANGED outcome
    /\ UNCHANGED <<rid, next_uuid, req, orch, temp_file_info, disk, video_info, fo,
                   llm_analysis, response, calls, cleanup_log>>

\* process_file_workflow, lines 258-259: the uploader handle, then ASRService(...)
FileAsrStart ==
    /\ pc = "file_asr_start"
    /\ UNCHANGED sideVars
    /\ \E factory \in FactoryOutcomes, key \in BOOLEAN :
         LET g == GetHandle(orch, "OSSUploader", factory)
             started == [AsrIdle EXCEPT !.via = "file"] IN
         /\ orch' = g.orch
         /\ IF g.exc # None
            THEN /\ asr' = [started EXCEPT !.error = g.exc]
                 /\ transcript_text' = FileProcessingFallback(g.exc)
                 /\ pc' = "llm_start"
                 /\ UNCHANGED outcome
            ELSE IF ~key
            THEN /\ asr' = [started EXCEPT !.error = Exc("ValueError", MISSING_KEY_MESSAGE)]
                 /\ Raise(Exc("ValueError", MISSING_KEY_MESSAGE))
                 /\ UNCHANGED transcript_text
            ELSE /\ asr' = started
                 /\ pc' = "oss_upload"
                 /\ UNCHANGED <<transcript_text, outcome>>
    /\ UNCHANGED <<rid, next_uuid, req, temp_file_info, disk, video_info, fo,
                   llm_analysis, response, calls, cleanup_log>>

\* transcribe_from_file, lines 184-194: stage the file in the object store
OssUpload ==
    /\ pc = "oss_upload"
    /\ UNCHANGED sideVars
    /\ \E o \in UploadOutcomes :
         /\ calls' = Append(calls, Call("oss.upload_file", temp_file_info.file_path, o))
         /\ IF o.kind = "return"
            THEN /\ asr' = [asr EXCEPT !.url = o.value]
                 /\ pc' = "asr_submit"
                 /\ UNCHANGED <<transcript_text, outcome>>
            ELSE TranscriptionFailed(UploadFailure(o))
    /\ UNCHANGED <<rid, next_uuid, req, orch, temp_file_info, disk, video_info, fo,
                   llm_analysis, response, cleanup_log>>

\* transcribe_from_url, lines 106-137: submit the task
AsrSubmit ==
    /\ pc = "asr_submit"
    /\ UNCHANGED sideVars
    /\ \E o \in SubmitOutcomes :
         /\ calls' = Append(calls, Call("asr.async_call",
                                        SubmitParams(asr.backend, asr.url, asr.mode,
                                                     asr.hotword),
                                        Str(<<o>>)))
         /\ IF SubmitResult(o) = None
            THEN /\ pc' = "asr_wait"
                 /\ UNCHANGED <<asr, transcript_text, outcome>>
            ELSE TranscriptionFailed(AsrServiceError(SubmitResult(o)))
    /\ UNCHANGED <<rid, next_uuid, req, orch, temp_file_info, disk, video_info,
                   fo, llm_analysis, response, cleanup_log>>

\* transcribe_from_url, lines 139-158, and the workflow's handling of the result
AsrWait ==
    /\ pc = "asr_wait"
    /\ UNCHANGED sideVars
    /\ \E o \in WaitOutcomes :
         /\ calls' = Append(calls, Call("asr.wait", asr.url, o))
         /\ IF WaitResult(o).kind = "return"
            THEN /\ transcript_text' = WaitResult(o).value
                 /\ orch' = Checkpoint(orch, "asr_complete")
                 /\ pc' = "llm_start"
                 /\ UNCHANGED <<asr, outcome>>
            ELSE /\ TranscriptionFailed(AsrServiceError(WaitResult(o)))
                 /\ UNCHANGED orch
    /\ UNCHANGED <<rid, next_uuid, req, temp_file_info, disk, video_info, fo,
                   llm_analysis, response, cleanup_log>>

\* the info block of the workflow's AnalysisData
SourceInfo ==
    IF asr.via = "url"
    THEN [kind |-> "video_info", video_id |-> video_info.video_id,
          platform |-> video_info.platform, title |-> video_info.title,
          download_url |-> video_info.download_url]
    ELSE [kind |-> "file_info", file_path |-> temp_file_info.file_path,
          original_filename |-> temp_file_info.original_filename,
          size |-> temp_file_info.size]

\* lines 205-209 / 290-294: the router handle, then llm_router.analyze(transcript_text)
LlmStart ==
    /\ pc = "llm_start"
    /\ UNCHANGED sideVars
    /\ \E factory \in FactoryOutcomes :
         LET g == GetHandle(orch, "LLMRouter", factory) IN
         /\ orch' = g.orch
         /\ IF g.exc # None
            THEN /\ Raise(g.exc)
                 /\ UNCHANGED <<fo, calls>>
            ELSE /\ fo' = FoStart("LLMRouter", "adapters", transcript_text)
                 /\ calls' = Append(calls, Call("llm_router.analyze", transcript_text, None))
                 /\ pc' = "llm_running"
                 /\ UNCHANGED outcome
    /\ UNCHANGED <<rid, next_uuid, req, temp_file_info, disk, video_info, asr,
                   transcript_text, llm_analysis, response, cleanup_log>>

\* lines 210-214 / 295-299: llm_analysis built from analysis_result.hook/.core/.cta;
\* None when reading one of the attributes raises AttributeError
NarrativeFields(analysis_result) ==
    IF /\ HasAttr(analysis_result, "hook")
       /\ HasAttr(analysis_result, "core")
       /\ HasAttr(analysis_result, "cta")
    THEN [kind |-> "narrative", hook |-> analysis_result.hook,
          core |-> analysis_result.core, cta |-> analysis_result.cta]
    ELSE None

\* mutant: the embedded error field loses the underlying error message
LlmErrorAnalysisDropsMessage(e) ==
    [kind |-> "error", error |-> <<"LLM analysis failed: ">>]

\* lines 215-219 / 300-306: the except LLMError clause
LlmErrorAnalysis(e) ==
    [kind |-> "error", error |-> <<"LLM analysis failed: ">> \o e.msg]

\* the workflow returns its AnalysisData and parse_video assembles the
\* success response (lines 221-242 / 308-328, 597-617)
WorkflowReturns(analysis) ==
    /\ llm_analysis' = analysis
    /\ orch' = Checkpoint(orch, "llm_complete")
    /\ outcome' = create_success_response(
                      AnalysisData(transcript_text, SourceInfo, analysis))
    /\ pc' = "finally"

\* the router call of the workflow has ended
LlmFinish ==
    /\ pc = "llm_running"
    /\ UNCHANGED sideVars
    /\ fo.pc \in {"returned", "raised"}
    /\ IF fo.pc = "returned"
       THEN IF NarrativeFields(fo.result) # None
            THEN WorkflowReturns(NarrativeFields(fo.result))
            ELSE /\ Raise(Exc("AttributeError", <<"AnalysisResult has no attribute hook">>))
                 /\ UNCHANGED <<llm_analysis, orch>>
       ELSE IF fo.exc.type = "LLMError"
            THEN WorkflowReturns(LlmErrorAnalysis(fo.exc))
            ELSE /\ Raise(fo.exc)
                 /\ UNCHANGED <<llm_analysis, orch>>
    /\ UNCHANGED <<rid, next_uuid, req, temp_file_info, disk, video_info, asr,
                   transcript_text, fo, response, calls, cleanup_log>>

\* what awaiting FileHandler.cleanup inside cleanup_resources can do: the
\* unlink outcomes of FileHandler.cleanup, or an exception escaping the call
CleanupOutcomes == UnlinkOutcomes \cup {"raises"}

\* mutant: an exception of the cleanup call replaces the pending outcome
AfterCleanupMasks(tried, cleanup) ==
    IF cleanup = "raises"
    THEN handle_service_exception(Exc("Exception", <<"Cleanup failed">>))
    ELSE tried

\* cleanup_resources (lines 330-356): the response that leaves parse_video
\* after the finally block, given the outcome of the try block
AfterCleanup(tried, cleanup) == tried

\* parse_video's finally block: cleanup_resources(temp_file_info), then the
\* pending return value or HTTPException reaches the client
CleanupResources ==
    /\ pc = "finally"
    /\ UNCHANGED sideVars
    /\ IF temp_file_info = None
       THEN /\ cleanup_log' = Append(cleanup_log, [arg |-> None, result |-> "none"])
            /\ response' = AfterCleanup(outcome, "none")
            /\ UNCHANGED disk
       ELSE \E c \in CleanupOutcomes :
              /\ cleanup_log' = Append(cleanup_log, [arg |-> temp_file_info, result |-> c])
              /\ disk' = IF c = "raises" THEN disk
                         ELSE FileHandlerCleanup(disk, temp_file_info.file_path, c)
              /\ response' = AfterCleanup(outcome, c)
    /\ pc' = "done"
    /\ UNCHANGED <<rid, next_uuid, req, orch, temp_file_info, video_info, asr,
                   transcript_text, fo, llm_analysis, outcome, calls>>

Next ==
    \/ ReceiveRequest
    \/ JsonRequest
    \/ MultipartRequest
    \/ FormEncodedRequest
    \/ OtherRequest
    \/ SaveUploadFile
    \/ UrlParsing
    \/ UrlAsrStart
    \/ FileAsrStart
    \/ OssUpload
    \/ AsrSubmit
    \/ AsrWait
    \/ LlmStart
    \/ FoPrimary
    \/ FoFallback
    \/ LlmFinish
    \/ CleanupResources

Spec == Init /\ [][Next]_vars

----------------------------------------------------------------------------
(* The failover on its own: either implementation, any two candidates *)

InitFailover ==
    /\ rid = 0
    /\ http = HTTPClientManager
    /\ tasks = <<>>
    /\ next_uuid = 1
    /\ pc = "failover"
    /\ req = None
    /\ orch = NewOrchestrator
    /\ temp_file_info = None
    /\ disk = {}
    /\ video_info = None
    /\ asr = AsrIdle
    /\ transcript_text = <<>>
    /\ \E impl \in Impls, text \in FailoverInputs : fo = FoStart(impl, "any", text)
    /\ llm_analysis = [kind |-> "empty"]
    /\ outcome = None
    /\ response = None
    /\ calls = <<>>
    /\ cleanup_log = <<>>

NextFailover == FoPrimary \/ FoFallback

SpecFailover == InitFailover /\ [][NextFailover]_vars

----------------------------------------------------------------------------
(* The error handler on its own: any exceptions, handled one after another *)

ExceptionTypes ==
    { "URLParserError", "ASRError", "LLMError", "FileHandlerError",
      "OSSUploaderError", "ServiceInitializationError",
      "ValueError", "RuntimeError", "NLSASRError" }

Exceptions == { Exc(t, m) : t \in ExceptionTypes, m \in ErrTexts }

InitErrors ==
    /\ rid = 0
    /\ http = HTTPClientManager
    /\ tasks = <<>>
    /\ next_uuid = 1
    /\ pc = "errors"
    /\ req = None
    /\ orch = NewOrchestrator
    /\ temp_file_info = None
    /\ disk = {}
    /\ video_info = None
    /\ asr = AsrIdle
    /\ transcript_text = <<>>
    /\ fo = FoIdle
    /\ llm_analysis = [kind |-> "empty"]
    /\ outcome = None
    /\ response = None
    /\ calls = <<>>
    /\ cleanup_log = <<>>

\* handle_service_exception(e) for an exception e
HandleServiceException ==
    /\ pc = "errors"
    /\ UNCHANGED sideVars
    /\ Len(calls) < MaxHandled
    /\ \E e \in Exceptions :
         calls' = Append(calls, Call("create_error_response", e,
                                     handle_service_exception(e)))
    /\ UNCHANGED <<rid, next_uuid, pc, req, orch, temp_file_info, disk, video_info,
                   asr, transcript_text, fo, llm_analysis, outcome, response,
                   cleanup_log>>

NextErrors == HandleServiceException

SpecErrors == InitErrors /\ [][NextErrors]_vars

----------------------------------------------------------------------------
(* The transcription services on their own: either backend, either mode,
   URL input or a file staged through the object store *)

InitTranscribe ==
    /\ rid = 0
    /\ http = HTTPClientManager
    /\ tasks = <<>>
    /\ next_uuid = 1
    /\ req = None
    /\ orch = NewOrchestrator
    /\ temp_file_info = None
    /\ disk = {}
    /\ video_info = None
    /\ \E backend \in Backends, mode \in Modes, env \in HotwordEnvs,
          via \in {"url", "file"} :
          /\ asr = [via |-> via,
                    url |-> IF via = "url" THEN <<"https://x/video.mp4">> ELSE <<>>,
                    error |-> None, backend |-> backend, mode |-> mode,
                    hotword |-> env, elapsed |-> 0]
          /\ pc = IF via = "file" THEN "tr_upload" ELSE "tr_submit"
    /\ transcript_text = <<>>
    /\ fo = FoIdle
    /\ llm_analysis = [kind |-> "empty"]
    /\ outcome = None
    /\ response = None
    /\ calls = <<>>
    /\ cleanup_log = <<>>

\* transcribe_from_file: upload_file, then transcribe_from_url on its URL
TranscribeUpload ==
    /\ pc = "tr_upload"
    /\ UNCHANGED sideVars
    /\ \E o \in UploadOutcomes :
         /\ calls' = Append(calls, Call("oss.upload_file", TempPath(1, <<"a", ".", "mp4">>), o))
         /\ IF o.kind = "return"
            THEN /\ asr' = [asr EXCEPT !.url = o.value]
                 /\ pc' = "tr_submit"
            ELSE /\ asr' = [asr EXCEPT !.error = UploadFailureOf(asr.backend, o)]
                 /\ pc' = "tr_raised"
    /\ UNCHANGED <<rid, next_uuid, req, orch, temp_file_info, disk, video_info,
                   transcript_text, fo, llm_analysis, outcome, response, cleanup_log>>

\* an error of transcribe_from_url as it leaves the method that was called:
\* ASRService.transcribe_from_file wraps it, NLSASRService lets it pass
ServiceError(e) == IF asr.backend = "dashscope" THEN AsrServiceError(e) ELSE e

\* transcribe_from_url up to the end of the submit call
TranscribeSubmit ==
    /\ pc = "tr_submit"
    /\ UNCHANGED sideVars
    /\ \E o \in SubmitOutcomesOf(asr.backend) :
         /\ calls' = Append(calls, Call(SubmitOp(asr.backend),
                                        SubmitParams(asr.backend, asr.url, asr.mode,
                                                     asr.hotword),
                                        Str(<<o>>)))
         /\ IF SubmitResultOf(asr.backend, o) = None
            THEN /\ pc' = "tr_wait"
                 /\ UNCHANGED asr
            ELSE /\ asr' = [asr EXCEPT
                               !.error = ServiceError(SubmitResultOf(asr.backend, o))]
                 /\ pc' = "tr_raised"
    /\ UNCHANGED <<rid, next_uuid, req, orch, temp_file_info, disk, video_info,
                   transcript_text, fo, llm_analysis, outcome, response, cleanup_log>>

\* transcribe_from_url from the wait for the task's result on
TranscribeWait ==
    /\ pc = "tr_wait"
    /\ UNCHANGED sideVars
    /\ \E o \in WaitOutcomesOf(asr.backend) :
         /\ calls' = Append(calls, Call(WaitOp(asr.backend), asr.url, o))
         /\ IF WaitResultOf(asr.backend, o).kind = "return"
            THEN /\ transcript_text' = WaitResultOf(asr.backend, o).value
                 /\ pc' = "tr_returned"
                 /\ UNCHANGED asr
            ELSE /\ asr' = [asr EXCEPT
                               !.error = ServiceError(WaitResultOf(asr.backend, o))]
                 /\ pc' = "tr_raised"
                 /\ UNCHANGED transcript_text
    /\ UNCHANGED <<rid, next_uuid, req, orch, temp_file_info, disk, video_info,
                   fo, llm_analysis, outcome, response, cleanup_log>>

NextTranscribe == TranscribeUpload \/ TranscribeSubmit \/ TranscribeWait

SpecTranscribe == InitTranscribe /\ [][NextTranscribe]_vars

----------------------------------------------------------------------------
(* Properties *)

\* the TempFileInfo that save_upload_file returned in this request, if any
Staged ==
    IF \E i \in 1..Len(calls) :
          calls[i].op = "save_upload_file" /\ calls[i].result # None
    THEN (CHOOSE c \in {calls[i] : i \in 1..Len(calls)} :
              c.op = "save_upload_file" /\ c.result # None).result
    ELSE None

CallsOf(op) == { i \in 1..Len(calls) : calls[i].op = op }

\* C1: on every exit path of /api/parse cleanup_resources runs exactly once,
\* only after the outcome of the request is determined, and it receives the
\* TempFileInfo when save_upload_file succeeded and None otherwise (always
\* None for a URL request).
C1_CleanupOnceAfterOutcome ==
    /\ (cleanup_log # <<>> => outcome # None /\ pc = "done")
    /\ (response # None => pc = "done")
    /\ (pc = "done" =>
          /\ Len(cleanup_log) = 1
          /\ cleanup_log[1].arg = Staged
          /\ (req.ctype = "application/json" => cleanup_log[1].arg = None))

C1_Witness ==
    /\ pc = "done"
    /\ outcome.kind = "http_error"
    /\ Staged # None
    /\ Len(cleanup_log) = 1
    /\ cleanup_log[1].arg = Staged

\* C2: a failing cleanup step never replaces the outcome of the request: the
\* client receives the status, code, success flag and data that the try block
\* produced, as it does when cleanup succeeds.
C2_CleanupFailureSwallowed ==
    (pc = "done" /\ cleanup_log[1].result \in {"raises", "oserror"}) =>
        /\ response = outcome
        /\ response.status = outcome.status
        /\ response.code = outcome.code
        /\ response.success = outcome.success
        /\ response.data = outcome.data

C2_Witness ==
    /\ pc = "done"
    /\ cleanup_log[1].result = "raises"
    /\ outcome.kind = "http_error"
    /\ response = outcome

\* C3 as stated: after a file-upload request completes the staged temporary
\* path does not exist, whatever the outcome of the run.
C3_Original ==
    (pc = "done" /\ Staged # None) => Staged.file_path \notin disk

\* C3 amended: after a file-upload request completes, whatever its outcome,
\* removal of the staged path was attempted once, and the path is gone
\* exactly when that removal did not fail.
C3_StagedFileRemovedUnlessUnlinkFails ==
    (pc = "done" /\ Staged # None) =>
        /\ Len(cleanup_log) = 1
        /\ cleanup_log[1].arg = Staged
        /\ (Staged.file_path \notin disk <=> cleanup_log[1].result = "removed")

C3_Witness ==
    /\ pc = "done"
    /\ Staged # None
    /\ outcome.kind = "http_error"
    /\ cleanup_log[1].result = "removed"
    /\ Staged.file_path \notin disk

\* C4: in one failover execution the primary is invoked exactly once and
\* first, the fallback at most once and only after the primary failed, never
\* when the primary succeeded, and no candidate is invoked twice.
C4_FailoverInvocationOrder ==
    /\ Len(fo.log) <= 2
    /\ (fo.pc \in {"fallback", "returned", "raised"} => Len(fo.log) >= 1)
    /\ (fo.pc = "primary" => fo.log = <<>>)
    /\ (Len(fo.log) >= 1 => fo.log[1].who = "primary")
    /\ (Len(fo.log) = 2 =>
          /\ fo.log[2].who = "fallback"
          /\ fo.log[1].out.kind = "exception")
    /\ (Len(fo.log) >= 1 /\ fo.log[1].out.kind = "return" =>
          /\ Len(fo.log) = 1
          /\ fo.pc = "returned")

C4_Witness ==
    /\ fo.pc = "returned"
    /\ Len(fo.log) = 2
    /\ fo.log[1].who = "primary"
    /\ fo.log[2].who = "fallback"

\* C5: when the primary fails and the fallback returns normally, the failover
\* returns the fallback's result exactly, and the fallback was called with
\* the same text as the primary.
C5_FallbackResultReturned ==
    (Len(fo.log) = 2 /\ fo.log[2].out.kind = "return") =>
        /\ fo.pc = "returned"
        /\ fo.result = fo.log[2].out.value
        /\ fo.log[2].text = fo.log[1].text
        /\ fo.log[1].text = fo.text

C5_Witness ==
    /\ Len(fo.log) = 2
    /\ fo.log[1].out.kind = "exception"
    /\ fo.log[2].out.kind = "return"
    /\ fo.result = fo.log[2].out.value
    /\ fo.text # <<>>

BothFailed ==
    /\ Len(fo.log) = 2
    /\ fo.log[1].out.kind = "exception"
    /\ fo.log[1].out.type = "LLMError"
    /\ fo.log[2].out.kind = "exception"
    /\ fo.log[2].out.type = "LLMError"

\* C6: when primary and fallback both fail, the failover raises one LLMError
\* whose message holds both underlying error strings, each after the label
\* of its role.
C6_AggregatedError ==
    BothFailed =>
        /\ fo.pc = "raised"
        /\ fo.result = None
        /\ fo.exc.type = "LLMError"
        /\ Labeled(fo.exc.msg, PrimaryLabel(fo.impl), fo.log[1].out.msg)
        /\ Labeled(fo.exc.msg, FallbackLabel(fo.impl), fo.log[2].out.msg)

C6_Witness ==
    /\ BothFailed
    /\ fo.log[1].out.msg # fo.log[2].out.msg
    /\ fo.impl = "LLMExecutionService"
    /\ fo.exc.type = "LLMError"

\* the transcription of this request ended with an ASRError
AsrFailed == asr.error # None /\ asr.error.type = "ASRError"

\* the object-store upload of this request was called and failed / succeeded
UploadFailed ==
    \E i \in CallsOf("oss.upload_file") : calls[i].result.kind = "exception"

UploadSucceeded ==
    \E i \in CallsOf("oss.upload_file") : calls[i].result.kind = "return"

SuccessEnvelope(r) == r.status = 200 /\ r.code = 0 /\ r.success

\* C7: a URL run whose resolution and transcription succeed and whose
\* analyzer (primary, or fallback after a primary failure) returns a valid
\* narrative result ends with the success envelope (200, code 0, success)
\* carrying the hook, core and cta of the candidate that succeeded.
C7_UrlSuccessEnvelope ==
    ( /\ pc = "done"
      /\ asr.via = "url"
      /\ "asr_complete" \in orch.checkpoints
      /\ transcript_text # <<>>
      /\ fo.pc = "returned"
      /\ fo.result \in NarrativeResults ) =>
        /\ SuccessEnvelope(response)
        /\ response.data.analysis.llm_analysis.kind = "narrative"
        /\ response.data.analysis.llm_analysis.hook = fo.result.analysis.hook
        /\ response.data.analysis.llm_analysis.core = fo.result.analysis.core
        /\ response.data.analysis.llm_analysis.cta = fo.result.analysis.cta

\* C8: for file input, a failed object-store upload is fatal with the
\* storage error envelope (HTTP 503, code 5004, success false), no analysis
\* is attempted, and the staged file no longer exists afterward.
C8_UploadFailureIsStorageError ==
    (pc = "done" /\ UploadFailed) =>
        /\ response.status = 503
        /\ response.code = 5004
        /\ ~response.success
        /\ CallsOf("llm_router.analyze") = {}
        /\ Staged.file_path \notin disk

\* C9: in the URL workflow an ASRError does not propagate: the transcript is
\* a placeholder holding the source title and the failure reason, analysis
\* is invoked exactly once on that placeholder, and the response is 200
\* with code 0.
C9_UrlAsrFailureDegrades ==
    ( /\ pc = "done"
      /\ asr.via = "url"
      /\ AsrFailed
      /\ orch.handles["LLMRouter"] # None ) =>
        /\ ContainsSeq(transcript_text, video_info.title)
        /\ ContainsSeq(transcript_text, asr.error.msg)
        /\ Cardinality(CallsOf("llm_router.analyze")) = 1
        /\ \A i \in CallsOf("llm_router.analyze") : calls[i].arg = transcript_text
        /\ response.status = 200
        /\ response.code = 0

\* C10: in the file workflow, when staging succeeded and transcription then
\* fails with ASRError, the request still completes with 200 and code 0,
\* analysis is attempted, and the temp file is cleaned up.
C10_FileAsrFailureRecoverable ==
    ( /\ pc = "done"
      /\ asr.via = "file"
      /\ UploadSucceeded
      /\ AsrFailed ) =>
        /\ response.status = 200
        /\ response.code = 0
        /\ CallsOf("llm_router.analyze") # {}
        /\ Len(cleanup_log) = 1
        /\ cleanup_log[1].arg = Staged

\* the router call of this request raised LLMError (both candidates failed)
AnalysisFailed == fo.pc = "raised" /\ fo.exc.type = "LLMError"

\* C11: when the router raises LLMError after failover the run does not
\* fail: the response is 200 with code 0, its transcript is the workflow's
\* transcript (the transcriber's text when transcription succeeded), and
\* llm_analysis carries an error field holding 'LLM analysis failed' and the
\* message of the LLMError.
C11_AnalysisFailureDegrades ==
    (pc = "done" /\ AnalysisFailed) =>
        /\ SuccessEnvelope(response)
        /\ response.data.transcript = transcript_text
        /\ ("asr_complete" \in orch.checkpoints =>
              \E i \in CallsOf("asr.wait") :
                  WaitResult(calls[i].result) = Return(response.data.transcript))
        /\ response.data.analysis.llm_analysis = llm_analysis
        /\ llm_analysis.kind = "error"
        /\ Contains(llm_analysis.error, "LLM analysis failed: ")
        /\ ContainsSeq(llm_analysis.error, fo.exc.msg)

C11_Witness ==
    /\ pc = "done"
    /\ AnalysisFailed
    /\ asr.via = "url"
    /\ "asr_complete" \in orch.checkpoints
    /\ transcript_text = <<"hello">>
    /\ response.status = 200
    /\ response.data.analysis.llm_analysis.kind = "error"

\* the resolver call of this request raised an exception
ResolverRaised ==
    \E i \in CallsOf("parser.parse") : calls[i].result.kind = "exception"

\* source resolution of this request failed: the resolver raised
\* URLParserError
ResolutionFailed ==
    \E i \in CallsOf("parser.parse") :
        calls[i].result.kind = "exception" /\ calls[i].result.type = "URLParserError"

\* C12: a share text without a URL, or whose URL is of no supported
\* platform, makes the resolver raise URLParserError; a URLParserError of
\* the resolver is fatal with HTTP 400, code 4001 and success false, and
\* after any exception of the resolver neither the transcriber nor the
\* analyzer is invoked in that run and the response is no success.
C12_ResolutionFailureFatal ==
    /\ \A i \in CallsOf("parser.parse") :
          (\A j \in 1..Len(calls[i].arg) :
               calls[i].arg[j] \notin DouyinUrls \cup XhsUrls) =>
              /\ calls[i].result.kind = "exception"
              /\ calls[i].result.type = "URLParserError"
    /\ (ResolverRaised => pc \in {"finally", "done"})
    /\ (pc = "done" /\ ResolutionFailed =>
          /\ response.status = 400
          /\ response.code = 4001)
    /\ (pc = "done" /\ ResolverRaised =>
          /\ ~response.success
          /\ asr.via = "none"
          /\ fo.log = <<>>
          /\ CallsOf("asr.async_call") = {}
          /\ CallsOf("asr.wait") = {}
          /\ CallsOf("llm_router.analyze") = {})

C12_Witness ==
    /\ pc = "done"
    /\ ResolutionFailed
    /\ \E i \in CallsOf("parser.parse") :
          /\ calls[i].arg = <<"https://example.com/v">>
          /\ Contains(calls[i].result.msg, "Unsupported platform in URL: ")
    /\ response.status = 400
    /\ response.code = 4001

\* a service could not be constructed in this request: one of the lazy
\* getters logged a failed factory
ConstructionFailed == orch.init_failed # {}

\* C13: a construction failure of a service proxy behind one of the lazy
\* getters (source resolver, file handler, object store, analyzer) during
\* a run is raised as ServiceInitializationError and is fatal for the
\* request: the response is the error envelope with HTTP 500 and code 5005,
\* never a success envelope.
C13_ConstructionFailureFatal ==
    (pc = "done" /\ ConstructionFailed) =>
        /\ response.status = 500
        /\ response.code = 5005
        /\ ~response.success

\* the exception types that have an entry in the mapping table
MappedTypes ==
    { "URLParserError", "ASRError", "LLMError", "FileHandlerError",
      "OSSUploaderError", "ServiceInitializationError" }

\* the (HTTP status, business code) that the table fixes for a type
ExpectedStatusCode(type) ==
    IF type = "URLParserError" THEN <<400, 4001>>
    ELSE IF type = "ASRError" THEN <<503, 5001>>
    ELSE IF type = "LLMError" THEN <<502, 5002>>
    ELSE IF type = "FileHandlerError" THEN <<500, 5003>>
    ELSE IF type = "OSSUploaderError" THEN <<503, 5004>>
    ELSE IF type = "ServiceInitializationError" THEN <<500, 5005>>
    ELSE <<500, 9999>>

\* C14: create_error_response gives every exception the HTTP status and
\* business code of its kind (9999 with HTTP 500 for any other exception),
\* and the envelope always has success = false and data = null.
C14_ErrorMapping ==
    \A i \in CallsOf("create_error_response") :
        /\ <<calls[i].result.status, calls[i].result.code>>
               = ExpectedStatusCode(calls[i].arg.type)
        /\ calls[i].result.success = FALSE
        /\ calls[i].result.data = None

C14_Witness ==
    /\ Len(calls) = 2
    /\ calls[1].arg.type = "LLMError"
    /\ calls[1].result.status = 502
    /\ calls[1].result.code = 5002
    /\ calls[2].arg.type = "RuntimeError"
    /\ calls[2].result.code = 9999

\* C15: for any two exceptions of unmapped types, whatever their messages,
\* the error envelopes are identical: HTTP 500, code 9999 and the message
\* 'An internal server error occurred'.
C15_UnmappedNeverLeaks ==
    \A i, j \in CallsOf("create_error_response") :
        (calls[i].arg.type \notin MappedTypes /\ calls[j].arg.type \notin MappedTypes) =>
            /\ calls[i].result = calls[j].result
            /\ calls[i].result.status = 500
            /\ calls[i].result.code = 9999
            /\ calls[i].result.message = <<"An internal server error occurred">>

C15_Witness ==
    /\ Len(calls) = 2
    /\ calls[1].arg.type = "ValueError"
    /\ calls[2].arg.type = "NLSASRError"
    /\ calls[1].arg.msg # calls[2].arg.msg
    /\ calls[1].result = calls[2].result

\* C16: for every mapped exception kind the message of the error envelope
\* is the default user-facing message of that kind in the mapping table,
\* whatever the exception's own message is.
C16_DefaultMessage ==
    \A i \in CallsOf("create_error_response") :
        calls[i].arg.type \in MappedTypes =>
            calls[i].result.message = ERROR_MAPPINGS[calls[i].arg.type].message

\* the envelope r pairs code 0 with success and null data with failure
WellFormedEnvelope(r) ==
    /\ (r.code = 0 <=> r.success = TRUE)
    /\ (r.data = None <=> r.success = FALSE)

\* C17: every response envelope produced for /api/parse, on every path,
\* has code = 0 exactly when success is true, and data = null exactly when
\* success is false.
C17_EnvelopeShape ==
    /\ (outcome # None => WellFormedEnvelope(outcome))
    /\ (response # None => WellFormedEnvelope(response))

C17_Witness ==
    /\ pc = "done"
    /\ response.success = TRUE
    /\ response.code = 0
    /\ response.data # None
    /\ response.data.transcript # <<>>

\* the JSON body is an object whose url is a string that is not blank
CarriesUrl(body) ==
    /\ body.json = "object"
    /\ body.url.kind = "str"
    /\ Strip(body.url.s) # <<>>

\* C18: an application/json request whose body is valid JSON but carries no
\* url that is non-null and non-blank after trimming is answered with HTTP
\* 400, code 4002 and 'Either URL or file must be provided', and no
\* resolver, transcriber or analyzer call is made.
C18_JsonWithoutUrlRejected ==
    ( /\ pc = "done"
      /\ req.ctype = "application/json"
      /\ req.body.json \notin {"not_utf8", "invalid"}
      /\ ~CarriesUrl(req.body) ) =>
        /\ response.status = 400
        /\ response.code = 4002
        /\ response.message = <<"Either URL or file must be provided">>
        /\ calls = <<>>
        /\ asr.via = "none"
        /\ fo.log = <<>>

\* the submit calls made to the transcription provider
SubmitCalls == CallsOf("asr.async_call") \cup CallsOf("nls.SubmitTask")

\* Tech mode was requested and ALIYUN_TECH_HOTWORD_ID is unset or blank
HotwordMissing == asr.mode = "tech" /\ HotwordId(asr.hotword) = <<>>

\* C19: in Tech mode with no configured hotword id, transcription raises a
\* configuration error before any external transcription call is made: no
\* submit call is observed and the call never gets as far as a transcript.
C19_TechWithoutHotwordRaises ==
    HotwordMissing =>
        /\ SubmitCalls = {}
        /\ pc \notin {"tr_wait", "tr_returned"}
        /\ (pc = "tr_raised" /\ asr.url # <<>> => asr.error.type = "ValueError")

\* C20: the submit call carries a vocabulary identifier exactly when the
\* mode is Tech, and then it is the configured identifier; in General mode
\* it never carries one.  For URL input and for a staged file alike.
C20_VocabularyExactlyInTech ==
    \A i \in SubmitCalls :
        /\ (asr.mode = "general" => ~HasAttr(calls[i].arg, "vocabulary_id"))
        /\ (asr.mode = "tech" /\ HotwordId(asr.hotword) # <<>> =>
              /\ HasAttr(calls[i].arg, "vocabulary_id")
              /\ calls[i].arg.vocabulary_id = HotwordId(asr.hotword))

----------------------------------------------------------------------------
(* json: the values a chat model can answer with, json.dumps, json.loads.
   A string is a sequence of tokens; a character that an operation treats
   in a way of its own (a quote, a backslash, a control character, a
   whitespace character) stands as a token by itself. *)

JDict(items) == [kind |-> "dict", items |-> items]

JList(items) == [kind |-> "list", items |-> items]

JInt(n) == [kind |-> "int", n |-> n]

Item(k, v) == [k |-> k, v |-> v]

\* key in d
HasKey(d, k) == \E i \in DOMAIN d.items : d.items[i].k = k

\* d[key]
Get(d, k) == d.items[CHOOSE i \in DOMAIN d.items : d.items[i].k = k].v

\* the characters that are written by name count as one character
NamedChars == (SpaceLike \cup OtherWhitespace \cup NonAscii) \ AsciiWhitespace

\* len() of a token
CharLen(t) == IF t \in NamedChars THEN 1 ELSE Len(t)

RECURSIVE StrLen(_)
\* len(s)
StrLen(s) ==
    IF Len(s) = 0 THEN 0
    ELSE IF Len(s) = 1 THEN CharLen(s[1])
    ELSE StrLen(SubSeq(s, 1, Len(s) \div 2)) + StrLen(SubSeq(s, Len(s) \div 2 + 1, Len(s)))

RECURSIVE Prefix(_, _)
\* s[:n]
Prefix(s, n) ==
    IF n = 0 THEN <<>>
    ELSE IF StrLen(s) <= n THEN s
    ELSE IF Len(s) = 1 THEN <<SubSeq(s[1], 1, n)>>
    ELSE LET left == SubSeq(s, 1, Len(s) \div 2)
             right == SubSeq(s, Len(s) \div 2 + 1, Len(s)) IN
         IF StrLen(left) >= n THEN Prefix(left, n)
         ELSE left \o Prefix(right, n - StrLen(left))

RECURSIVE Flat(_)
\* the tokens of a string written one after the other
Flat(s) ==
    IF Len(s) = 0 THEN ""
    ELSE IF Len(s) = 1 THEN s[1]
    ELSE Flat(SubSeq(s, 1, Len(s) \div 2)) \o Flat(SubSeq(s, Len(s) \div 2 + 1, Len(s)))

\* key in text, for a str
IsSubstring(key, text) ==
    LET t == Flat(text) IN
    \E i \in 1..Len(t) : i + Len(key) - 1 <= Len(t) /\ SubSeq(t, i, i + Len(key) - 1) = key

\* type(value).__name__
TypeName(v) ==
    CASE v.kind = "None" -> "NoneType"
      [] v.kind = "int"  -> "int"
      [] v.kind = "str"  -> "str"
      [] v.kind = "list" -> "list"
      [] v.kind = "dict" -> "dict"

\* bool(value)
Truthy(v) ==
    CASE v.kind = "None" -> FALSE
      [] v.kind = "int"  -> v.n # "0"
      [] v.kind = "str"  -> v.s # <<>>
      [] v.kind = "list" -> v.items # <<>>
      [] v.kind = "dict" -> v.items # <<>>

\* json.dumps(..., ensure_ascii=False) writes the quote, the backslash and the
\* control characters U+0001..U+001F (written as themselves) with a
\* backslash, and every other character as it is
EscapeChar(c) ==
    CASE c = "\"" -> "\\\""
      [] c = "\\" -> "\\\\"
      [] c = "\n" -> "\\n"
      [] c = "\r" -> "\\r"
      [] c = "\t" -> "\\t"
      [] c = "\f" -> "\\f"
      [] c = "" -> "\\b"
      [] c = "" -> "\\u0001"
      [] c = "" -> "\\u0002"
      [] c = "" -> "\\u0003"
      [] c = "" -> "\\u0004"
      [] c = "" -> "\\u0005"
      [] c = "" -> "\\u0006"
      [] c = "" -> "\\u0007"
      [] c = "" -> "\\u000b"
      [] c = "" -> "\\u000e"
      [] c = "" -> "\\u000f"
      [] c = "" -> "\\u0010"
      [] c = "" -> "\\u0011"
      [] c = "" -> "\\u0012"
      [] c = "" -> "\\u0013"
      [] c = "" -> "\\u0014"
      [] c = "" -> "\\u0015"
      [] c = "" -> "\\u0016"
      [] c = "" -> "\\u0017"
      [] c = "" -> "\\u0018"
      [] c = "" -> "\\u0019"
      [] c = "" -> "\\u001a"
      [] c = "" -> "\\u001b"
      [] c = "" -> "\\u001c"
      [] c = "" -> "\\u001d"
      [] c = "" -> "\\u001e"
      [] c = "" -> "\\u001f"
      [] OTHER -> c

RECURSIVE EscapeToken(_)
\* the characters of a token, each escaped
EscapeToken(t) ==
    IF Len(t) = 0 THEN ""
    ELSE IF Len(t) = 1 THEN EscapeChar(t)
    ELSE EscapeToken(SubSeq(t, 1, Len(t) \div 2))
         \o EscapeToken(SubSeq(t, Len(t) \div 2 + 1, Len(t)))

Escape(s) == [i \in DOMAIN s |-> IF s[i] \in NamedChars THEN s[i] ELSE EscapeToken(s[i])]


RECURSIVE json_dumps(_), dumps_items(_), dumps_list(_)
\* json.dumps(value, ensure_ascii=False): separators ", " and ": "
json_dumps(v) ==
    CASE v.kind = "None" -> <<"null">>
      [] v.kind = "int"  -> <<v.n>>
      [] v.kind = "str"  -> <<"\"">> \o Escape(v.s) \o <<"\"">>
      [] v.kind = "list" -> <<"[">> \o dumps_list(v.items) \o <<"]">>
      [] v.kind = "dict" -> <<"{">> \o dumps_items(v.items) \o <<"}">>

dumps_items(items) ==
    IF items = <<>> THEN <<>>
    ELSE <<"\"", EscapeToken(Head(items).k), "\"", ": ">> \o json_dumps(Head(items).v)
         \o (IF Len(items) > 1 THEN <<", ">> \o dumps_items(Tail(items)) ELSE <<>>)

dumps_list(items) ==
    IF items = <<>> THEN <<>>
    ELSE json_dumps(Head(items))
         \o (IF Len(items) > 1 THEN <<", ">> \o dumps_list(Tail(items)) ELSE <<>>)

\* repr() of a character inside a string written with the quote q: the
\* backslash and the quote get a backslash, characters that are not
\* printable are written as \n, \r, \t, \xNN or \uNNNN
ReprChar(c, q) ==
    CASE c = q -> "\\" \o q
      [] c = "\\" -> "\\\\"
      [] c = "\n" -> "\\n"
      [] c = "\r" -> "\\r"
      [] c = "\t" -> "\\t"
      [] c = "\f" -> "\\x0c"
      [] c = "" -> "\\x01"
      [] c = "" -> "\\x02"
      [] c = "" -> "\\x03"
      [] c = "" -> "\\x04"
      [] c = "" -> "\\x05"
      [] c = "" -> "\\x06"
      [] c = "" -> "\\x07"
      [] c = "" -> "\\x08"
      [] c = "" -> "\\x0b"
      [] c = "" -> "\\x0e"
      [] c = "" -> "\\x0f"
      [] c = "" -> "\\x10"
      [] c = "" -> "\\x11"
      [] c = "" -> "\\x12"
      [] c = "" -> "\\x13"
      [] c = "" -> "\\x14"
      [] c = "" -> "\\x15"
      [] c = "" -> "\\x16"
      [] c = "" -> "\\x17"
      [] c = "" -> "\\x18"
      [] c = "" -> "\\x19"
      [] c = "" -> "\\x1a"
      [] c = "" -> "\\x1b"
      [] c = "" -> "\\x1c"
      [] c = "" -> "\\x1d"
      [] c = "" -> "\\x1e"
      [] c = "" -> "\\x1f"
      [] c = "" -> "\\x7f"
      [] c = "" -> "\\x85"
      [] c = " " -> "\\xa0"
      [] c = " " -> "\\u1680"
      [] c = "<U+2000>" -> "\\u2000"
      [] c = "<U+2001>" -> "\\u2001"
      [] c = "<U+2002>" -> "\\u2002"
      [] c = "<U+2003>" -> "\\u2003"
      [] c = "<U+2004>" -> "\\u2004"
      [] c = "<U+2005>" -> "\\u2005"
      [] c = "<U+2006>" -> "\\u2006"
      [] c = "<U+2007>" -> "\\u2007"
      [] c = "<U+2008>" -> "\\u2008"
      [] c = "<U+2009>" -> "\\u2009"
      [] c = "<U+200A>" -> "\\u200a"
      [] c = "<U+202F>" -> "\\u202f"
      [] c = "<U+205F>" -> "\\u205f"
      [] c = "<U+3000>" -> "\\u3000"
      [] c = "<U+2028>" -> "\\u2028"
      [] c = "<U+2029>" -> "\\u2029"
      [] OTHER -> c

\* the quote repr() writes a string with: the double quote when the string
\* holds a single quote and no double quote, else the single quote
ReprQuote(s) ==
    IF IsSubstring("'", s) /\ ~IsSubstring("\"", s) THEN "\"" ELSE "'"

RECURSIVE ReprToken(_, _)
\* the characters of a token, each as repr() writes it
ReprToken(t, q) ==
    IF Len(t) = 0 THEN ""
    ELSE IF Len(t) = 1 THEN ReprChar(t, q)
    ELSE ReprToken(SubSeq(t, 1, Len(t) \div 2), q)
         \o ReprToken(SubSeq(t, Len(t) \div 2 + 1, Len(t)), q)

ReprStr(s) ==
    <<ReprQuote(s)>>
    \o [i \in DOMAIN s |-> IF s[i] \in NamedChars THEN ReprChar(s[i], ReprQuote(s))
                                                   ELSE ReprToken(s[i], ReprQuote(s))]
    \o <<ReprQuote(s)>>

RECURSIVE PyRepr(_), repr_items(_), repr_list(_)
\* repr(value)
PyRepr(v) ==
    CASE v.kind = "None" -> <<"None">>
      [] v.kind = "int"  -> <<v.n>>
      [] v.kind = "str"  -> ReprStr(v.s)
      [] v.kind = "list" -> <<"[">> \o repr_list(v.items) \o <<"]">>
      [] v.kind = "dict" -> <<"{">> \o repr_items(v.items) \o <<"}">>

repr_items(items) ==
    IF items = <<>> THEN <<>>
    ELSE ReprStr(<<Head(items).k>>) \o <<": ">> \o PyRepr(Head(items).v)
         \o (IF Len(items) > 1 THEN <<", ">> \o repr_items(Tail(items)) ELSE <<>>)

repr_list(items) ==
    IF items = <<>> THEN <<>>
    ELSE PyRepr(Head(items))
         \o (IF Len(items) > 1 THEN <<", ">> \o repr_list(Tail(items)) ELSE <<>>)

\* "key" in value raises TypeError for a value that is no container
InRaises(c) == c.kind \in {"None", "int"}

InError(c) ==
    Exc("TypeError", <<"argument of type '", TypeName(c), "' is not iterable">>)

\* "key" in value: a key of a dict, an element of a list, a part of a str
PyIn(key, c) ==
    CASE c.kind = "dict" -> HasKey(c, key)
      [] c.kind = "list" ->
           \E i \in DOMAIN c.items : c.items[i].kind = "str" /\ Flat(c.items[i].s) = key
      [] c.kind = "str"  -> IsSubstring(key, c.s)

KeyError(k) == <<"'", k, "'">>

\* value["key"]
Subscript(c, key) ==
    CASE c.kind = "dict" ->
           IF HasKey(c, key) THEN Return(Get(c, key))
           ELSE Exc("KeyError", KeyError(key))
      [] c.kind = "str"  ->
           Exc("TypeError", <<"string indices must be integers, not 'str'">>)
      [] c.kind = "list" ->
           Exc("TypeError", <<"list indices must be integers or slices, not str">>)
      [] OTHER ->
           Exc("TypeError", <<"'", TypeName(c), "' object is not subscriptable">>)

NestedObject == JDict(<<Item("text", Str(<<"h">>))>>)

\* a nested object whose text holds a quote, a backslash and a newline
QuotedObject == JDict(<<Item("text", Str(<<"a", "\"", "b", "\\", "c", "\n">>))>>)

FieldValues == { Str(<<"h">>), NestedObject }

HookValues == FieldValues \cup { Str(<<>>), None }

\* a token of 30 characters
LongToken == "This answer holds no JSON text"

\* a text of 210 characters that is no JSON
LongText == [i \in 1..7 |-> LongToken]

CleanedTexts == { <<"cleaned">>, <<>>, <<"1">> }

AnalysisObject(hook, core, cta) ==
    JDict(<<Item("hook", hook), Item("core", core), Item("cta", cta)>>)

NarrativeDocument(cleaned, analysis) ==
    JDict(<<Item("raw_transcript", Str(<<"raw">>)),
            Item("cleaned_transcript", Str(cleaned)),
            Item("analysis", analysis)>>)

\* complete narrative answers: every field present
CompleteNarratives ==
    { NarrativeDocument(<<"cleaned">>, AnalysisObject(h, c, a)) :
        h \in FieldValues, c \in FieldValues, a \in FieldValues }
    \cup { NarrativeDocument(<<"cleaned">>, AnalysisObject(h, Str(<<"h">>), NestedObject)) :
             h \in HookValues }
    \cup { NarrativeDocument(t, AnalysisObject(Str(<<"h">>), Str(<<"h">>), Str(<<"h">>))) :
             t \in CleanedTexts }

\* complete narrative answers with a hook that is an object with characters
\* to escape or a list, and with a long cleaned_transcript
OtherNarratives ==
    { NarrativeDocument(<<"cleaned">>, AnalysisObject(h, Str(<<"h">>), Str(<<"h">>))) :
        h \in { QuotedObject, JList(<<Str(<<"a">>), JInt("1"), NestedObject>>) } }
    \cup { NarrativeDocument(LongText,
                             AnalysisObject(Str(<<"h">>), Str(<<"h">>), Str(<<"h">>))) }

\* key_quotes: a list with falsy elements and elements that are no strings,
\* and a value that is no list
QuotedNarratives ==
    { NarrativeDocument(<<"cleaned">>,
        JDict(<<Item("hook", Str(<<"h">>)), Item("core", Str(<<"h">>)),
                Item("cta", Str(<<"h">>)), Item("key_quotes", q)>>)) :
        q \in { JList(<<Str(<<"q">>), Str(<<>>), None, JInt("0"), JInt("7"),
                        JList(<<>>), NestedObject>>),
                Str(<<"q">>) } }

\* narrative answers that lack a field, whose analysis is not an object, or
\* whose raw_transcript is null
BrokenNarratives ==
    { NarrativeDocument(<<"cleaned">>,
        JDict(<<Item("core", Str(<<"h">>)), Item("cta", Str(<<"h">>))>>)),
      NarrativeDocument(<<"cleaned">>, Str(<<"h">>)),
      JDict(<<Item("raw_transcript", Str(<<"raw">>)),
              Item("cleaned_transcript", Str(<<"cleaned">>))>>),
      JDict(<<Item("cleaned_transcript", Str(<<"cleaned">>)),
              Item("analysis", AnalysisObject(Str(<<"h">>), Str(<<"h">>), Str(<<"h">>)))>>),
      JDict(<<Item("schema_type", Str(<<"v2_narrative">>))>>),
      JDict(<<Item("raw_transcript", None),
              Item("cleaned_transcript", Str(<<"cleaned">>)),
              Item("analysis", AnalysisObject(Str(<<"h">>), Str(<<"h">>), Str(<<"h">>)))>>) }

\* narrative answers whose analysis is null, a number, a list or a string,
\* with and without the transcripts
NonObjectAnalyses ==
    { NarrativeDocument(<<"cleaned">>, a) :
        a \in { None, JInt("1"), JList(<<>>), JList(<<Str(<<"key_quotes">>)>>),
                Str(<<"key_quotes">>) } }
    \cup { JDict(<<Item("analysis", a)>>) : a \in { None, Str(<<"h">>), JList(<<>>) } }

\* answers that are JSON but no object
NonObjectDocuments ==
    { JInt("1"), None, JList(<<>>), JList(<<Str(<<"schema_type">>)>>),
      Str(<<"schema_type">>), Str(<<"x">>) }

TechFields ==
    <<"product_parameters", "selling_points", "pricing_info", "subjective_evaluation">>

TechDocument ==
    JDict(<<Item("schema_type", Str(<<"v3_tech_spec">>)),
            Item("product_parameters", JList(<<Str(<<"M4">>)>>)),
            Item("selling_points", JList(<<Str(<<"fast">>)>>)),
            Item("pricing_info", JList(<<>>)),
            Item("subjective_evaluation", JDict(<<Item("pros", Str(<<"light">>))>>))>>)

\* answers that carry the marker: the whole tech spec, and the marker alone
MarkedDocuments ==
    { TechDocument, JDict(<<Item("schema_type", Str(<<"v3_tech_spec">>))>>) }

\* the answers that come bare, in a fence and in a fence with language tag
ModelDocuments ==
    CompleteNarratives \cup BrokenNarratives \cup MarkedDocuments \cup { JInt("1") }

\* the answers that come bare only
BareDocuments ==
    OtherNarratives \cup QuotedNarratives \cup NonObjectAnalyses \cup NonObjectDocuments

\* the text of an answer: bare JSON, JSON in a fence with or without a
\* language tag, JSON after a sentence of prose
Wrappers == { "bare", "json_fence", "fence", "prose" }

\* the Markdown code fence (three backquotes), alone and with its language tag
FENCE == "~~~"

FENCE_JSON == "~~~json"

Wrap(w, text) ==
    CASE w = "bare"       -> text
      [] w = "json_fence" -> <<FENCE_JSON, " ">> \o text \o <<" ", FENCE, " ">>
      [] w = "fence"      -> <<" ", FENCE, " ">> \o text \o <<" ", FENCE>>
      [] w = "prose"      -> <<"Here is the analysis: ">> \o text

Contents ==
    { Wrap(w, json_dumps(d)) : w \in Wrappers \ {"prose"}, d \in ModelDocuments }
    \cup { json_dumps(d) : d \in BareDocuments }
    \cup { Wrap("prose", json_dumps(TechDocument)), <<"sorry">>, LongText }

\* what the chat-completion call of an adapter can give: an httpx error, a
\* body without "choices", with an empty list of choices, with a null
\* content, or with a content
ChatReplies ==
    { [kind |-> "timeout"], [kind |-> "connect_error"], [kind |-> "http_error"],
      [kind |-> "no_choices"], [kind |-> "empty_choices"], [kind |-> "null_content"] }
    \cup { [kind |-> "content", content |-> c] : c \in Contents }

\* the JSON text of every document
JsonTexts ==
    { [text |-> json_dumps(v), value |-> v] : v \in ModelDocuments \cup BareDocuments }

\* json.loads(text): the texts of the answers that are no JSON are empty or
\* begin with a letter
json_loads(text) ==
    IF \E e \in JsonTexts : e.text = text
    THEN Return((CHOOSE e \in JsonTexts : e.text = text).value)
    ELSE Exc("JSONDecodeError", <<"Expecting value: line 1 column 1 (char 0)">>)

----------------------------------------------------------------------------
(* llm_service.py: DeepSeekAdapter.analyze and KimiAdapter.analyze *)

Adapters == {"DeepSeek", "Kimi"}

LLM_TIMEOUT == "30.0"

\* the length of the response preview in an error message
PREVIEW_LEN == 200

\* content.strip(), the leading fence, the trailing fence, strip() again
StripFences(content) ==
    LET a == Strip(content)
        b == IF a # <<>> /\ Head(a) = FENCE_JSON THEN Tail(a)
             ELSE IF a # <<>> /\ Head(a) = FENCE THEN Tail(a)
             ELSE a
        c == IF b # <<>> /\ b[Len(b)] = FENCE THEN SubSeq(b, 1, Len(b) - 1) ELSE b
    IN Strip(c)

\* str(value)
PyStr(value) == IF value.kind = "str" THEN value.s ELSE PyRepr(value)

\* mutant: a nested object is dropped instead of serialized
to_stringDropsObject(value) ==
    IF value.kind = "dict" THEN <<>> ELSE PyStr(value)

to_string(value) ==
    IF value.kind = "dict" THEN json_dumps(value) ELSE PyStr(value)

\* except (json.JSONDecodeError, KeyError): the message ends with content[:200]
ParseFailure(name, detail, content) ==
    Exc("LLMError", <<"Failed to parse ", name, " response: ">> \o detail
                    \o <<". Response preview: ">> \o Prefix(content, PREVIEW_LEN))

\* mutant: an exception the handler has no case for leaves analyze() as it is
ApiErrorEscapes(name, type, detail) == Exc(type, detail)

\* except Exception: anything else becomes an LLMError too
ApiError(name, type, detail) ==
    Exc("LLMError", <<name, " API error: ", type, ": ">> \o detail)

\* self.base_url, when the environment names no other
base_url(name) ==
    IF name = "DeepSeek" THEN "https://api.deepseek.com" ELSE "https://api.moonshot.cn"

TransportError(name, kind) ==
    IF kind = "timeout"
    THEN Exc("LLMError",
             <<name, " API timeout: Request took too long (>", LLM_TIMEOUT, "s)">>
             \o (IF name = "DeepSeek"
                 THEN <<". Try without VPN or increase timeout.">> ELSE <<>>))
    ELSE IF kind = "connect_error"
    THEN Exc("LLMError",
             <<name, " API connection error: Cannot reach ", base_url(name),
               ". Check VPN or network settings.">>)
    ELSE Exc("LLMError", <<name, " API HTTP error: ", "500", " - ", "down">>)

\* an exception raised inside the inner try block of analyze(): the inner
\* handler takes JSONDecodeError and KeyError, the outer one the rest
Handled(name, e, content) ==
    IF e.type \in {"JSONDecodeError", "KeyError"}
    THEN ParseFailure(name, e.msg, content)
    ELSE ApiError(name, e.type, e.msg)

\* [str(q) for q in quotes if q]
KeyQuotes(quotes) ==
    LET kept == SelectSeq(quotes, Truthy) IN
    JList([i \in DOMAIN kept |-> PyStr(kept[i])])

\* the key_quotes of the result: None unless analysis_obj has a key_quotes
\* that is a list
KeyQuotesOf(analysis_obj) ==
    IF PyIn("key_quotes", analysis_obj)
       /\ Subscript(analysis_obj, "key_quotes").value.kind = "list"
    THEN KeyQuotes(Subscript(analysis_obj, "key_quotes").value.items)
    ELSE None

\* the first exception among the results rs, or None
FirstException(rs) ==
    LET failed == { i \in DOMAIN rs : rs[i].kind = "exception" } IN
    IF failed = {} THEN None
    ELSE rs[CHOOSE i \in failed : \A j \in failed : i <= j]

\* the V2 narrative branch, in the order the code evaluates it:
\* analysis_data["analysis"], "key_quotes" in analysis_obj,
\* analysis_obj["key_quotes"], analysis_data["raw_transcript"],
\* analysis_data["cleaned_transcript"], analysis_obj["hook"], ["core"],
\* ["cta"], and the validation of AnalysisResult.  The result, or the
\* exception raised.
NarrativeResult(analysis_data) ==
    LET analysis == Subscript(analysis_data, "analysis") IN
    IF analysis.kind = "exception" THEN analysis
    ELSE LET analysis_obj == analysis.value IN
    IF InRaises(analysis_obj) THEN InError(analysis_obj)
    ELSE LET reads == << IF PyIn("key_quotes", analysis_obj)
                         THEN Subscript(analysis_obj, "key_quotes")
                         ELSE Return(None),
                         Subscript(analysis_data, "raw_transcript"),
                         Subscript(analysis_data, "cleaned_transcript"),
                         Subscript(analysis_obj, "hook"),
                         Subscript(analysis_obj, "core"),
                         Subscript(analysis_obj, "cta") >> IN
    IF FirstException(reads) # None THEN FirstException(reads)
    ELSE IF reads[2].value.kind # "str" \/ reads[3].value.kind # "str"
    THEN Exc("ValidationError",
             IF reads[2].value.kind # "str" /\ reads[3].value.kind # "str"
             THEN <<"2 validation errors for AnalysisResult">>
             ELSE <<"1 validation error for AnalysisResult">>)
    ELSE Return(
           AnalysisResult(
             reads[2].value.s,
             reads[3].value.s,
             [AnalysisDetail(to_string(reads[4].value),
                             to_string(reads[5].value),
                             to_string(reads[6].value))
                EXCEPT !.key_quotes = KeyQuotesOf(analysis_obj)]))

\* the answer with schema_type = v3_tech_spec: the JSON text goes into
\* cleaned_transcript, the narrative fields stay empty
TechResult(analysis_data) ==
    Return(AnalysisResult(<<>>, json_dumps(analysis_data),
                          AnalysisDetail(<<>>, <<>>, <<>>)))

\* "schema_type" in analysis_data and analysis_data["schema_type"] ==
\* "v3_tech_spec": TRUE, FALSE, or the TypeError raised
HasMarker(analysis_data) ==
    IF InRaises(analysis_data) THEN InError(analysis_data)
    ELSE IF ~PyIn("schema_type", analysis_data) THEN Return(FALSE)
    ELSE IF Subscript(analysis_data, "schema_type").kind = "exception"
    THEN Subscript(analysis_data, "schema_type")
    ELSE Return(Subscript(analysis_data, "schema_type").value
                  = [kind |-> "str", s |-> <<"v3_tech_spec">>])

\* the inner try block of analyze(): from content to AnalysisResult
ParseContent(name, content) ==
    LET loaded == json_loads(StripFences(content)) IN
    IF loaded.kind = "exception" THEN Handled(name, loaded, content)
    ELSE LET analysis_data == loaded.value IN
    IF HasMarker(analysis_data).kind = "exception"
    THEN Handled(name, HasMarker(analysis_data), content)
    ELSE IF HasMarker(analysis_data).value THEN TechResult(analysis_data)
    ELSE IF NarrativeResult(analysis_data).kind = "exception"
    THEN Handled(name, NarrativeResult(analysis_data), content)
    ELSE NarrativeResult(analysis_data)

\* analyze(text): the chat-completion call, result["choices"][0]["message"]
\* ["content"] and len(content), then the parsing of the content
AdapterAnalyze(name, reply) ==
    IF reply.kind = "content" THEN ParseContent(name, reply.content)
    ELSE IF reply.kind = "no_choices"
    THEN ApiError(name, "KeyError", KeyError("choices"))
    ELSE IF reply.kind = "empty_choices"
    THEN ApiError(name, "IndexError", <<"list index out of range">>)
    ELSE IF reply.kind = "null_content"
    THEN ApiError(name, "TypeError", <<"object of type 'NoneType' has no len()">>)
    ELSE TransportError(name, reply.kind)

----------------------------------------------------------------------------
(* llm_track_router.py: LLMTrackRouter *)

AnalysisModes == {"general", "tech"}

RequestedModes == AnalysisModes \cup {"fast"}

AnalysisTranscripts == { <<"M4 Max review">>, <<>> }

PLACEHOLDER == "{{TRANSCRIPT_PLACEHOLDER}}"

\* self.route_map[analysis_mode]["prompt_file"]
route_map(analysis_mode) ==
    IF analysis_mode = "general" THEN "structured_analysis.prompt"
    ELSE "tech_spec_extraction.prompt"

PromptFiles == { route_map(m) : m \in AnalysisModes }

PromptTexts(file) ==
    IF file = "structured_analysis.prompt"
    THEN { Str(<<"Analyse the script.">>) }
    ELSE { Str(<<"Extract tech specs from: ", PLACEHOLDER>>),
           Str(<<"Extract tech specs.">>) }

\* str(prompts_dir)
PromptDirPaths == { <<"app/prompts">> }

\* prompts_dir: its path and, for each template file, its text, or None when
\* the file is absent
PromptDirs ==
    { [path |-> p, files |-> d] :
        p \in PromptDirPaths,
        d \in { f \in [PromptFiles -> {None} \cup UNION { PromptTexts(x) : x \in PromptFiles }] :
                  \A x \in PromptFiles : f[x] = None \/ f[x] \in PromptTexts(x) } }

\* _load_prompt(file_name): prompt_path = self.prompts_dir / file_name
load_prompt(prompts_dir, file_name) ==
    IF prompts_dir.files[file_name] = None
    THEN Exc("FileNotFoundError",
             <<"Prompt file not found: ">> \o prompts_dir.path \o <<"/", file_name, ". ">>
             \o <<"Please ensure the file exists in ">> \o prompts_dir.path)
    ELSE Return(prompts_dir.files[file_name].s)

InvalidMode(analysis_mode) ==
    Exc("ValueError", <<"Invalid analysis_mode: '", analysis_mode,
                        "'. Must be one of: ", "general, tech">>)

\* what get_analysis hands to execute_with_failover
FailoverText(analysis_mode, prompt_content, transcript) ==
    IF analysis_mode = "general" THEN transcript
    ELSE Replace(prompt_content, PLACEHOLDER, transcript)

\* get_analysis up to the call of execute_with_failover: the exception it
\* raises before that call, or None
GetAnalysisEarlyExit(prompts_dir, analysis_mode) ==
    IF analysis_mode \notin AnalysisModes THEN InvalidMode(analysis_mode)
    ELSE IF load_prompt(prompts_dir, route_map(analysis_mode)).kind = "exception"
    THEN load_prompt(prompts_dir, route_map(analysis_mode))
    ELSE None

\* tech mode: json.loads(cleaned_transcript or raw_transcript); on
\* JSONDecodeError the message ends with json_text[:200]
TechSpecData(raw_response) ==
    LET json_text == IF raw_response.cleaned_transcript # <<>>
                     THEN raw_response.cleaned_transcript
                     ELSE raw_response.raw_transcript IN
    IF json_loads(json_text).kind = "return" THEN json_loads(json_text)
    ELSE Exc("LLMError",
             <<"Failed to parse tech spec JSON from LLM response. ",
               "Response preview: ">> \o Prefix(json_text, PREVIEW_LEN))

\* get_analysis after execute_with_failover: an exception of the failover
\* propagates, general mode hands its result on, tech mode decodes it
GetAnalysisExit(analysis_mode, f) ==
    IF f.pc = "raised" THEN f.exc
    ELSE IF analysis_mode = "general" THEN Return(f.result)
    ELSE TechSpecData(f.result)

----------------------------------------------------------------------------
(* The analysis router on its own: a prompts directory, one router, one
   get_analysis call over an LLMExecutionService of the two adapters *)

InitAnalysis ==
    /\ rid = 0
    /\ http = HTTPClientManager
    /\ tasks = <<>>
    /\ next_uuid = 1
    /\ pc = "router_new"
    /\ req = None
    /\ orch = NewOrchestrator
    /\ temp_file_info = None
    /\ disk \in PromptDirs
    /\ video_info = None
    /\ asr = AsrIdle
    /\ transcript_text = <<>>
    /\ fo = FoIdle
    /\ llm_analysis = [kind |-> "empty"]
    /\ outcome = None
    /\ response = None
    /\ calls = <<>>
    /\ cleanup_log = <<>>

\* LLMTrackRouter(prompts_dir): stores the directory and the route map
RouterInit ==
    /\ pc = "router_new"
    /\ UNCHANGED sideVars
    /\ pc' = "router_ready"
    /\ UNCHANGED <<rid, next_uuid, req, orch, temp_file_info, disk, video_info, asr,
                   transcript_text, fo, llm_analysis, outcome, response, calls,
                   cleanup_log>>

\* get_analysis(analysis_mode, transcript, execution_service) up to its await
GetAnalysis ==
    /\ pc = "router_ready"
    /\ UNCHANGED sideVars
    /\ \E analysis_mode \in RequestedModes, transcript \in AnalysisTranscripts :
         /\ req' = [analysis_mode |-> analysis_mode, transcript |-> transcript]
         /\ rid' = rid + 1
         /\ IF GetAnalysisEarlyExit(disk, analysis_mode) # None
            THEN /\ outcome' = GetAnalysisEarlyExit(disk, analysis_mode)
                 /\ pc' = "router_done"
                 /\ UNCHANGED fo
            ELSE /\ fo' = FoStart("LLMExecutionService", "adapters",
                                  FailoverText(analysis_mode,
                                               load_prompt(disk, route_map(analysis_mode)).value,
                                               transcript))
                 /\ pc' = "router_failover"
                 /\ UNCHANGED outcome
    /\ UNCHANGED <<next_uuid, orch, temp_file_info, disk, video_info, asr,
                   transcript_text, llm_analysis, response, calls, cleanup_log>>

\* self.primary.analyze(text): the DeepSeek adapter
AnalysisPrimary ==
    /\ pc = "router_failover"
    /\ http' = get_http_client(http)
    /\ UNCHANGED tasks
    /\ fo.pc = "primary"
    /\ \E reply \in ChatReplies :
         /\ fo' = PrimaryStep(fo, AdapterAnalyze("DeepSeek", reply))
         /\ calls' = Append(calls, Call("DeepSeek.analyze", fo.text, reply))
    /\ UNCHANGED <<rid, next_uuid, pc, req, orch, temp_file_info, disk, video_info,
                   asr, transcript_text, llm_analysis, outcome, response, cleanup_log>>

\* self.fallback.analyze(text): the Kimi adapter
AnalysisFallback ==
    /\ pc = "router_failover"
    /\ http' = get_http_client(http)
    /\ UNCHANGED tasks
    /\ fo.pc = "fallback"
    /\ \E reply \in ChatReplies :
         /\ fo' = FallbackStep(fo, AdapterAnalyze("Kimi", reply))
         /\ calls' = Append(calls, Call("Kimi.analyze", fo.text, reply))
    /\ UNCHANGED <<rid, next_uuid, pc, req, orch, temp_file_info, disk, video_info,
                   asr, transcript_text, llm_analysis, outcome, response, cleanup_log>>

\* get_analysis from the return of execute_with_failover on
GetAnalysisReturn ==
    /\ pc = "router_failover"
    /\ UNCHANGED sideVars
    /\ fo.pc \in {"returned", "raised"}
    /\ outcome' = GetAnalysisExit(req.analysis_mode, fo)
    /\ pc' = "router_done"
    /\ UNCHANGED <<rid, next_uuid, req, orch, temp_file_info, disk, video_info, asr,
                   transcript_text, fo, llm_analysis, response, calls, cleanup_log>>

NextAnalysis ==
    RouterInit \/ GetAnalysis \/ AnalysisPrimary \/ AnalysisFallback \/ GetAnalysisReturn

SpecAnalysis == InitAnalysis /\ [][NextAnalysis]_vars

----------------------------------------------------------------------------
(* Properties of the analysis router and the adapters *)

AnalysisSucceeded == pc = "router_done" /\ outcome.kind = "return"

\* a narrative result: an AnalysisResult with hook, core and cta filled in
IsNarrative(v) ==
    /\ HasAttr(v, "analysis")
    /\ v.analysis.hook # <<>>
    /\ v.analysis.core # <<>>
    /\ v.analysis.cta # <<>>

\* a tech-spec result: the decoded object with the v3_tech_spec marker
IsTechSpec(v) ==
    /\ HasAttr(v, "kind")
    /\ v.kind = "dict"
    /\ HasKey(v, "schema_type")
    /\ Get(v, "schema_type") = Str(<<"v3_tech_spec">>)

\* the answers whose content decodes once its fence is removed
DecodableContents ==
    { [content |-> Wrap(w, e.text), value |-> e.value] :
        w \in Wrappers \ {"prose"}, e \in JsonTexts }

\* the documents a reply's content decodes to
DocumentsOf(reply) ==
    IF reply.kind # "content" THEN {}
    ELSE { e.value : e \in { x \in DecodableContents : x.content = reply.content } }

NarrativeFieldNames == {"hook", "core", "cta"}

\* C21: a successful analysis returns the variant of the requested mode:
\* general mode a narrative result with hook, core and cta filled in, tech
\* mode a tech-spec result, and never the variant of the other mode.
C21_VariantMatchesMode ==
    AnalysisSucceeded =>
        IF req.analysis_mode = "general"
        THEN IsNarrative(outcome.value) /\ ~IsTechSpec(outcome.value)
        ELSE IsTechSpec(outcome.value) /\ ~IsNarrative(outcome.value)

\* the narrative answers that have every field
WholeNarratives == CompleteNarratives \cup OtherNarratives \cup QuotedNarratives

\* the JSON text of the nested objects of the answers, as RFC 8259 writes
\* it: the object {"text": "h"}, and the object whose text is a, a quote, b,
\* a backslash, c and a line feed
JsonTextOf(object) ==
    IF object = NestedObject THEN "{\"text\": \"h\"}"
    ELSE "{\"text\": \"a\\\"b\\\\c\\n\"}"

\* C26: when an adapter's decoded narrative answer gives hook, core or cta
\* as a nested JSON object, the adapter returns an AnalysisResult in which
\* each such field is the non-empty JSON serialization of the object.
C26_NestedObjectsSerialized ==
    \A i \in DOMAIN calls :
      \A d \in DocumentsOf(calls[i].result) \cap WholeNarratives :
        (\E f \in NarrativeFieldNames : Get(Get(d, "analysis"), f).kind = "dict")
        => /\ fo.log[i].out.kind = "return"
           /\ \A f \in NarrativeFieldNames :
                Get(Get(d, "analysis"), f).kind = "dict"
                => /\ fo.log[i].out.value.analysis[f] # <<>>
                   /\ Flat(fo.log[i].out.value.analysis[f])
                        = JsonTextOf(Get(Get(d, "analysis"), f))

\* a general-mode request whose answer gave the hook as the object with a
\* quote, a backslash and a line feed in its text
C26_Witness ==
    /\ AnalysisSucceeded
    /\ req.analysis_mode = "general"
    /\ Len(calls) = 1
    /\ Flat(outcome.value.analysis.hook) = JsonTextOf(QuotedObject)
    /\ outcome.value.analysis.core = <<"h">>

\* C27: when the answer that the failover returned decodes to an object with
\* schema_type = v3_tech_spec, get_analysis hands that decoded object to its
\* caller, whichever mode was requested.
C27_MarkerDecidesVariant ==
    (pc = "router_done" /\ fo.pc = "returned") =>
        \A d \in DocumentsOf(calls[Len(calls)].result) \cap MarkedDocuments :
            outcome = Return(d)

\* the fields the schema of a mode requires of a decoded answer
LacksRequiredField(analysis_mode, d) ==
    IF d.kind # "dict" THEN TRUE
    ELSE IF analysis_mode = "tech"
    THEN \/ ~(HasKey(d, "schema_type") /\ Get(d, "schema_type") = Str(<<"v3_tech_spec">>))
         \/ \E i \in DOMAIN TechFields : ~HasKey(d, TechFields[i])
    ELSE \/ \E k \in {"raw_transcript", "cleaned_transcript", "analysis"} : ~HasKey(d, k)
         \/ Get(d, "analysis").kind # "dict"
         \/ \E f \in NarrativeFieldNames : ~HasKey(Get(d, "analysis"), f)

\* the primary's answer cannot be decoded, or lacks a required field
PrimaryAnswerUnusable ==
    /\ Len(calls) >= 1
    /\ calls[1].result.kind = "content"
    /\ \/ DocumentsOf(calls[1].result) = {}
       \/ \E d \in DocumentsOf(calls[1].result) : LacksRequiredField(req.analysis_mode, d)

\* a result with an empty narrative field, or a tech spec without its fields
EmptyOrMissingFields(v) ==
    IF HasAttr(v, "analysis") THEN ~IsNarrative(v)
    ELSE ~IsTechSpec(v) \/ \E i \in DOMAIN TechFields : ~HasKey(v, TechFields[i])

\* C28: when the primary's answer cannot be decoded as JSON or lacks a
\* field its mode requires, the attempt fails with an LLMError and the
\* fallback is called with the same input; get_analysis never returns a
\* result with empty or missing fields.
C28_MalformedAnswerFailsOver ==
    /\ PrimaryAnswerUnusable =>
         /\ fo.log[1].out.kind = "exception"
         /\ fo.log[1].out.type = "LLMError"
         /\ pc = "router_done" =>
              /\ Len(calls) = 2
              /\ calls[2].op = "Kimi.analyze"
              /\ calls[2].arg = calls[1].arg
    /\ AnalysisSucceeded => ~EmptyOrMissingFields(outcome.value)

\* C29: no get_analysis request fails because a prompt template file is
\* absent: the absence is detected when the router is constructed.
C29_MissingTemplateFoundAtStartup ==
    ~(/\ pc = "router_done"
      /\ outcome.kind = "exception"
      /\ outcome.type = "FileNotFoundError")

----------------------------------------------------------------------------
(* The service handles on their own: requests arrive, each gets its own
   WorkflowOrchestrator, and their getter calls interleave *)

MaxOrchestrators == 2

MaxGetterCalls == 3

InitGetters ==
    /\ rid = 0
    /\ http = HTTPClientManager
    /\ tasks = <<>>
    /\ next_uuid = 1
    /\ pc = "getters"
    /\ req = None
    /\ orch = <<>>
    /\ temp_file_info = None
    /\ disk = {}
    /\ video_info = None
    /\ asr = AsrIdle
    /\ transcript_text = <<>>
    /\ fo = FoIdle
    /\ llm_analysis = [kind |-> "empty"]
    /\ outcome = None
    /\ response = None
    /\ calls = <<>>
    /\ cleanup_log = <<>>

\* parse_video, line 511: orchestrator = WorkflowOrchestrator(perf_logger)
NewRequest ==
    /\ pc = "getters"
    /\ UNCHANGED sideVars
    /\ rid < MaxOrchestrators
    /\ rid' = rid + 1
    /\ orch' = Append(orch, WorkflowOrchestrator(rid + 1))
    /\ UNCHANGED <<next_uuid, pc, req, temp_file_info, disk, video_info, asr,
                   transcript_text, fo, llm_analysis, outcome, response, calls,
                   cleanup_log>>

\* one call of a lazy getter on the orchestrator of request r
GetService ==
    /\ pc = "getters"
    /\ UNCHANGED sideVars
    /\ Len(calls) < MaxGetterCalls
    /\ \E r \in DOMAIN orch, name \in ServiceNames, factory \in FactoryOutcomes :
         LET g == GetHandle(orch[r], name, factory) IN
         /\ orch' = [orch EXCEPT ![r] = g.orch]
         /\ calls' = Append(calls,
                            Call(name, r, [handle |-> g.orch.handles[name],
                                           exc |-> g.exc, built |-> g.built]))
    /\ UNCHANGED <<rid, next_uuid, pc, req, temp_file_info, disk, video_info, asr,
                   transcript_text, fo, llm_analysis, outcome, response, cleanup_log>>

\* asr_service = ASRService() in the workflow of request r: the transcriber
\* is built by the workflow itself, once per run
BuildTranscriber ==
    /\ pc = "getters"
    /\ UNCHANGED sideVars
    /\ Len(calls) < MaxGetterCalls
    /\ \E r \in DOMAIN orch, key \in BOOLEAN :
         /\ \A i \in DOMAIN calls : ~(calls[i].op = "ASRService" /\ calls[i].arg = r)
         /\ calls' = Append(calls,
                            Call("ASRService", r,
                                 [handle |-> IF key THEN Instance("ASRService", r, 1)
                                             ELSE None,
                                  exc |-> IF key THEN None
                                          ELSE Exc("ValueError", MISSING_KEY_MESSAGE),
                                  built |-> TRUE]))
    /\ UNCHANGED <<rid, next_uuid, pc, req, orch, temp_file_info, disk, video_info,
                   asr, transcript_text, fo, llm_analysis, outcome, response,
                   cleanup_log>>

NextGetters == NewRequest \/ GetService \/ BuildTranscriber

SpecGetters == InitGetters /\ [][NextGetters]_vars

----------------------------------------------------------------------------
(* Properties of the service handles *)

\* the calls of one getter on the orchestrator of request r
GetterCalls(r, name) ==
    { i \in DOMAIN calls : calls[i].op = name /\ calls[i].arg = r }

\* C22: within one WorkflowOrchestrator, once a lazy getter has returned a
\* handle, every later call of that getter returns the identical instance
\* without running the factory again.
C22_GetterMemoizes ==
    \A r \in DOMAIN orch, name \in ServiceNames :
      \A i, j \in GetterCalls(r, name) :
        (i < j /\ calls[i].result.exc = None)
        => /\ calls[j].result.exc = None
           /\ ~calls[j].result.built
           /\ calls[j].result.handle = calls[i].result.handle

C22_Witness ==
    \E r \in DOMAIN orch, name \in ServiceNames :
      \E i, j \in GetterCalls(r, name) :
        /\ i < j
        /\ calls[i].result.built
        /\ calls[i].result.exc = None
        /\ calls[j].result.handle = Instance(name, r, 1)

\* the constructions of a service that succeeded, over all requests
Constructions(name) ==
    { i \in DOMAIN calls :
        calls[i].op = name /\ calls[i].result.built /\ calls[i].result.exc = None }

\* C23: service handles are process-wide: over all requests, however their
\* calls interleave, each service (resolver, transcriber, object store,
\* analyzer) is constructed at most once, and later requests reuse the
\* instance built on first access.
C23_ProcessWideHandles ==
    \A name \in ServiceNames \cup {"ASRService"} :
        Cardinality(Constructions(name)) <= 1

----------------------------------------------------------------------------
(* Properties of the order of the stages and of their checkpoints *)

\* the place of an external call in the order of the stages; 0 for a call
\* that stays on the machine
StageRank(op) ==
    CASE op = "parser.parse"       -> 1
      [] op = "oss.upload_file"    -> 2
      [] op = "asr.async_call"     -> 3
      [] op = "asr.wait"           -> 4
      [] op = "llm_router.analyze" -> 5
      [] OTHER                     -> 0

ExternalCalls == { i \in DOMAIN calls : StageRank(calls[i].op) > 0 }

\* C24: within one run the external calls are made one after another in the
\* order resolve, upload, submit, wait, analysis, each at most once; resolve
\* is called only for a URL request, upload only for an uploaded file, and
\* the file's transcription task is submitted for the URL its upload returned.
C24_StagesInOrder ==
    /\ \A i, j \in ExternalCalls :
         i < j => StageRank(calls[i].op) < StageRank(calls[j].op)
    /\ CallsOf("parser.parse") # {} =>
         /\ req.ctype = "application/json"
         /\ req.file = None
         /\ CallsOf("oss.upload_file") = {}
    /\ CallsOf("oss.upload_file") # {} =>
         /\ req.file # None
         /\ Staged # None
         /\ CallsOf("parser.parse") = {}
    /\ \A i \in CallsOf("asr.async_call") :
         req.file # None =>
           \E j \in CallsOf("oss.upload_file") :
             /\ j < i
             /\ calls[j].result.kind = "return"
             /\ calls[i].arg.file_urls = <<calls[j].result.value>>

C24_Witness ==
    /\ pc = "done"
    /\ req.file # None
    /\ CallsOf("oss.upload_file") # {}
    /\ CallsOf("asr.async_call") # {}
    /\ CallsOf("asr.wait") # {}
    /\ CallsOf("llm_router.analyze") # {}

ResolveEntered == CallsOf("parser.parse") # {}

TranscribeEntered == asr.via # "none"

AnalyzeEntered == CallsOf("llm_router.analyze") # {}

\* C25: at the end of a run the monitor holds a checkpoint for every stage
\* the run entered (resolve, transcribe, analyze), whether the stage
\* succeeded or failed.
C25_CheckpointPerStage ==
    pc = "done" =>
        /\ ResolveEntered =>
             orch.checkpoints \ {"asr_complete", "llm_complete"} # {}
        /\ TranscribeEntered => "asr_complete" \in orch.checkpoints
        /\ AnalyzeEntered => "llm_complete" \in orch.checkpoints

----------------------------------------------------------------------------
(* transcribe_from_url with time: asr.elapsed is the time in seconds since
   the call in flight was made (ASRService, the clock of asyncio.wait_for)
   or since _wait_for_result started (NLSASRService, time.time() -
   start_time).  Time passes while a call to the provider is outstanding;
   the provider answers when it likes. *)

\* poll_interval of _wait_for_result
POLL_INTERVAL == 3

\* the lengths of time that pass in one step while a call is outstanding
TimeSteps == {10}

\* the time up to which a run is followed
Horizon == 3 * ASR_TIMEOUT

InitPolling ==
    /\ rid = 0
    /\ http = HTTPClientManager
    /\ tasks = <<>>
    /\ next_uuid = 1
    /\ req = None
    /\ orch = NewOrchestrator
    /\ temp_file_info = None
    /\ disk = {}
    /\ video_info = None
    /\ \E backend \in Backends, mode \in Modes, env \in HotwordEnvs :
          asr = [via |-> "url", url |-> <<"https://x/video.mp4">>, error |-> None,
                 backend |-> backend, mode |-> mode, hotword |-> env, elapsed |-> 0]
    /\ pc = "tr_submit"
    /\ transcript_text = <<>>
    /\ fo = FoIdle
    /\ llm_analysis = [kind |-> "empty"]
    /\ outcome = None
    /\ response = None
    /\ calls = <<>>
    /\ cleanup_log = <<>>

\* the submit call ends with outcome o; with a task id the wait phase
\* begins (NLSASRService: start_time = time.time())
SubmitCompletes(o) ==
    /\ calls' = Append(calls, Call(SubmitOp(asr.backend),
                                   SubmitParams(asr.backend, asr.url, asr.mode,
                                                asr.hotword),
                                   Str(<<o>>)))
    /\ IF SubmitResultOf(asr.backend, o) = None
       THEN /\ pc' = "tr_wait"
            /\ asr' = [asr EXCEPT !.elapsed = 0]
       ELSE /\ asr' = [asr EXCEPT !.error = ServiceError(SubmitResultOf(asr.backend, o))]
            /\ pc' = "tr_raised"
    /\ UNCHANGED <<rid, next_uuid, req, orch, temp_file_info, disk, video_info,
                   transcript_text, fo, llm_analysis, outcome, response, cleanup_log>>

\* the wait for the task's result ends with outcome o
WaitCompletes(o) ==
    /\ calls' = Append(calls, Call(WaitOp(asr.backend), asr.url, o))
    /\ IF WaitResultOf(asr.backend, o).kind = "return"
       THEN /\ transcript_text' = WaitResultOf(asr.backend, o).value
            /\ pc' = "tr_returned"
            /\ UNCHANGED asr
       ELSE /\ asr' = [asr EXCEPT !.error = ServiceError(WaitResultOf(asr.backend, o))]
            /\ pc' = "tr_raised"
            /\ UNCHANGED transcript_text
    /\ UNCHANGED <<rid, next_uuid, req, orch, temp_file_info, disk, video_info,
                   fo, llm_analysis, outcome, response, cleanup_log>>

\* a timer of asyncio.wait_for is running: ASRService awaits async_call or
\* Transcription.wait.  NLSASRService awaits the SDK without a timer.
TimerArmed == asr.backend = "dashscope" /\ pc \in {"tr_submitting", "tr_waiting"}

\* the coroutine awaits an answer from outside
CallOutstanding == pc \in {"tr_submitting", "tr_waiting", "tr_querying", "tr_downloading"}

\* the clock after d more seconds: a running timer fires at ASR_TIMEOUT
Later(d) ==
    IF TimerArmed /\ asr.elapsed + d > ASR_TIMEOUT THEN ASR_TIMEOUT ELSE asr.elapsed + d

\* await asyncio.to_thread(Transcription.async_call / do_action_with_exception):
\* the request is sent and the coroutine waits for the answer
SubmitCall ==
    /\ pc = "tr_submit"
    /\ UNCHANGED sideVars
    /\ pc' = "tr_submitting"
    /\ asr' = [asr EXCEPT !.elapsed = 0]
    /\ UNCHANGED <<rid, next_uuid, req, orch, temp_file_info, disk, video_info,
                   transcript_text, fo, llm_analysis, outcome, response, calls,
                   cleanup_log>>

\* time passes while the answer to a call is outstanding
Tick ==
    /\ CallOutstanding
    /\ UNCHANGED sideVars
    /\ \E d \in TimeSteps :
         /\ Later(d) # asr.elapsed
         /\ Later(d) <= Horizon
         /\ asr' = [asr EXCEPT !.elapsed = Later(d)]
    /\ UNCHANGED <<rid, next_uuid, pc, req, orch, temp_file_info, disk, video_info,
                   transcript_text, fo, llm_analysis, outcome, response, calls,
                   cleanup_log>>

\* the provider answers the submit call
SubmitAnswer ==
    /\ pc = "tr_submitting"
    /\ UNCHANGED sideVars
    /\ \E o \in SubmitOutcomesOf(asr.backend) \ {"timeout"} : SubmitCompletes(o)

\* ASRService: asyncio.wait_for(..., timeout=ASR_TIMEOUT) gives up on the
\* submit call.  NLSASRService._submit_task has no such timer.
SubmitTimeout ==
    /\ pc = "tr_submitting"
    /\ UNCHANGED sideVars
    /\ TimerArmed
    /\ asr.elapsed = ASR_TIMEOUT
    /\ SubmitCompletes("timeout")

\* ASRService: await asyncio.wait_for(asyncio.to_thread(Transcription.wait))
WaitCall ==
    /\ pc = "tr_wait"
    /\ UNCHANGED sideVars
    /\ asr.backend = "dashscope"
    /\ pc' = "tr_waiting"
    /\ asr' = [asr EXCEPT !.elapsed = 0]
    /\ UNCHANGED <<rid, next_uuid, req, orch, temp_file_info, disk, video_info,
                   transcript_text, fo, llm_analysis, outcome, response, calls,
                   cleanup_log>>

\* the provider answers Transcription.wait, or the call raises;
\* _process_transcription_response runs up to request.urlopen
\* (asr_service.py:326), which it reaches when the first result has a
\* transcription_url
WaitAnswer ==
    /\ pc = "tr_waiting"
    /\ UNCHANGED sideVars
    /\ \/ \E o \in WaitOutcomes \ {[kind |-> "timeout"]} :
            /\ o.kind = "response" => o.response.results # "url"
            /\ WaitCompletes(o)
       \/ /\ pc' = "tr_downloading"
          /\ UNCHANGED <<rid, next_uuid, req, orch, temp_file_info, disk, video_info,
                         asr, transcript_text, fo, llm_analysis, outcome, response,
                         calls, cleanup_log>>

\* request.urlopen(transcription_url) returns or raises, and the rest of
\* _process_transcription_response reads the document.  The download is no
\* part of the wait under asyncio.wait_for: no timer runs.
DownloadAnswer ==
    /\ pc = "tr_downloading"
    /\ UNCHANGED sideVars
    /\ \E r \in WaitResponses :
         /\ r.results = "url"
         /\ WaitCompletes([kind |-> "response", response |-> r])

\* ASRService: asyncio.wait_for gives up on Transcription.wait
WaitTimeout ==
    /\ pc = "tr_waiting"
    /\ UNCHANGED sideVars
    /\ asr.elapsed = ASR_TIMEOUT
    /\ WaitCompletes([kind |-> "timeout"])

\* NLSASRService._wait_for_result, top of the loop: elapsed = time.time() -
\* start_time; raise when elapsed > timeout, else send the next
\* GetTaskResult query
NlsPoll ==
    /\ pc = "tr_wait"
    /\ UNCHANGED sideVars
    /\ asr.backend = "nls"
    /\ IF asr.elapsed > ASR_TIMEOUT
       THEN WaitCompletes([kind |-> "timeout", elapsed |-> asr.elapsed])
       ELSE /\ pc' = "tr_querying"
            /\ UNCHANGED <<rid, next_uuid, req, orch, temp_file_info, disk,
                           video_info, asr, transcript_text, fo, llm_analysis,
                           outcome, response, calls, cleanup_log>>

\* _query_task returns or raises: the task is still running or queued (the
\* loop goes on to asyncio.sleep), or the run ends
NlsQueryAnswer ==
    /\ pc = "tr_querying"
    /\ UNCHANGED sideVars
    /\ \/ /\ pc' = "tr_sleeping"
          /\ calls' = Append(calls, Call(WaitOp(asr.backend), asr.url,
                                         [kind |-> "running"]))
          /\ UNCHANGED <<rid, next_uuid, req, orch, temp_file_info, disk, video_info,
                         asr, transcript_text, fo, llm_analysis, outcome, response,
                         cleanup_log>>
       \/ \E o \in { x \in NlsWaitOutcomes : x.kind # "timeout" } : WaitCompletes(o)

\* await asyncio.sleep(poll_interval), and back to the top of the loop
NlsSleep ==
    /\ pc = "tr_sleeping"
    /\ UNCHANGED sideVars
    /\ asr' = [asr EXCEPT !.elapsed = @ + POLL_INTERVAL]
    /\ pc' = "tr_wait"
    /\ UNCHANGED <<rid, next_uuid, req, orch, temp_file_info, disk, video_info,
                   transcript_text, fo, llm_analysis, outcome, response, calls,
                   cleanup_log>>

NextPolling ==
    \/ SubmitCall
    \/ Tick
    \/ SubmitAnswer
    \/ SubmitTimeout
    \/ WaitCall
    \/ WaitAnswer
    \/ DownloadAnswer
    \/ WaitTimeout
    \/ NlsPoll
    \/ NlsQueryAnswer
    \/ NlsSleep

SpecPolling == InitPolling /\ [][NextPolling]_vars

\* the phases the stage timeout is to bound: the submit call, the wait for
\* the task (ASRService) and the queries for its status (NLSASRService)
InSubmitOrWait == pc \in {"tr_submitting", "tr_waiting", "tr_querying"}

\* the run ended on its timer or on the elapsed-time test
EndedOnTimeout ==
    /\ pc = "tr_raised"
    /\ \/ calls[Len(calls)].result = Str(<<"timeout">>)
       \/ calls[Len(calls)].result.kind = "timeout"

\* C30: for either backend, transcribe_from_url does not go on waiting for a
\* provider that does not answer the submit call or does not complete the
\* task: it is never found waiting in the submit or wait phase after more
\* than the stage timeout, and when the timeout ends the run it raises the
\* backend's transcription error.
C30_TranscribeTerminates ==
    /\ InSubmitOrWait => asr.elapsed <= ASR_TIMEOUT
    /\ EndedOnTimeout =>
          asr.error.type = (IF asr.backend = "dashscope" THEN "ASRError" ELSE "NLSASRError")

----------------------------------------------------------------------------
(* How NLSASRService._wait_for_result ends *)

\* _wait_for_result has ended (its last query, or the deadline, is the last
\* entry of the call log)
NlsWaitEnded ==
    /\ asr.backend = "nls"
    /\ pc \in {"tr_returned", "tr_raised"}
    /\ CallsOf("nls.GetTaskResult") # {}

LastCall == calls[Len(calls)]

EndsWithSuccess ==
    /\ LastCall.result.kind = "success"
    /\ pc = "tr_returned"
    /\ transcript_text = LastCall.result.text

EndsWithFailureStatus ==
    /\ LastCall.result.kind = "failed"
    /\ pc = "tr_raised"
    /\ asr.error = NLSASRError(<<"task failed: ", "41050001", " - ", "">>)

EndsWithTimeout ==
    /\ LastCall.result.kind = "timeout"
    /\ pc = "tr_raised"
    /\ asr.elapsed > ASR_TIMEOUT
    /\ asr.error = NLSASRError(<<"task timed out: waited ", FloatStr(asr.elapsed), " s">>)

EndsWithQueryError ==
    /\ LastCall.result.kind = "query_error"
    /\ pc = "tr_raised"
    /\ asr.error = NLSASRError(<<"query task failed: ", "sdk error">>)

EndsWithNonObject ==
    /\ LastCall.result.kind = "not_object"
    /\ pc = "tr_raised"
    /\ asr.error = NLSASRError(<<"transcription failed: ",
                                 "'list' object has no attribute 'get'">>)

\* an answer "running" or "queued" sends the loop round again: nothing is
\* returned or raised on it
PollsAgainWhileRunning ==
    (/\ asr.backend = "nls"
     /\ calls # <<>>
     /\ LastCall.result.kind = "running")
        => /\ pc \in {"tr_sleeping", "tr_wait", "tr_querying"}
           /\ transcript_text = <<>>
           /\ asr.error = None

\* the three endings the claim names
EndsAsClaimed ==
    NlsWaitEnded => (EndsWithSuccess \/ EndsWithFailureStatus \/ EndsWithTimeout)

\* C31: a run of _wait_for_result ends in exactly one of three ways: the
\* transcript on status success, NLSASRError on a failure status, a timeout
\* NLSASRError once the elapsed time exceeds the timeout; on running or
\* queued it polls again and returns nothing.
C31_WaitEndsInOneOfThreeWays ==
    EndsAsClaimed /\ PollsAgainWhileRunning

----------------------------------------------------------------------------
(* An empty transcription result *)

\* the transcriber of this request returned the empty string
\* (_process_transcription_response, lines 330-332: no transcripts)
TranscriberYieldedEmpty ==
    \E i \in CallsOf("asr.wait") : WaitResult(calls[i].result) = Return(<<>>)

\* C32: when the transcriber yields an empty result, the transcript handed
\* to analysis and the transcript of the response are a non-empty
\* diagnostic placeholder, not the empty string.
C32_EmptyResultGetsPlaceholder ==
    TranscriberYieldedEmpty =>
        /\ \A i \in CallsOf("llm_router.analyze") : calls[i].arg # <<>>
        /\ (pc = "done" /\ SuccessEnvelope(response)) =>
              response.data.transcript # <<>>

----------------------------------------------------------------------------
(* http_client.py: HTTPClientManager shared by asyncio tasks.  A task runs
   without interruption from one await that suspends it to the next; the
   awaits that suspend are the wait for the lock when it is taken, the
   client's aclose() and the client's request(). *)

MaxTasks == 4

\* the log entry of a get_client call as it returns
GetClientReturned(h, t, g) ==
    Call("get_client", t, [client |-> g.client, created |-> g.created,
                           state |-> g.http.clients[g.client.id].state])

\* AsyncClient.aclose() begins: the client is marked closed before its
\* transport is shut down
AcloseBegins(h) == [h EXCEPT !.clients[h._client.id].state = "closed"]

\* mutant: close() leaves the closed client in place
ClearClientKeeps(h) == h

\* close, line 48: self._client = None
ClearClient(h) == [h EXCEPT !._client = None]

\* a task as asyncio.create_task makes it, about to run operation op
Task(op) == [op |-> op, pc |-> "start", client |-> None, original_timeout |-> None]

\* the tasks that can take the first step of operation name: a new task, or
\* one that was woken in the queue of the lock
Steppers(name) ==
    { t \in DOMAIN tasks : /\ tasks[t].op.name = name
                           /\ tasks[t].pc = "lock_wait"
                           /\ Woken(http._lock, t) }
    \cup (IF Len(tasks) < MaxTasks THEN {Len(tasks) + 1} ELSE {})

\* the task table with task t in it
Started(t, op) == IF t \in DOMAIN tasks THEN tasks ELSE Append(tasks, Task(op))

InitHttp ==
    /\ rid = 0
    /\ http = HTTPClientManager
    /\ tasks = <<>>
    /\ next_uuid = 1
    /\ pc = "http"
    /\ req = None
    /\ orch = NewOrchestrator
    /\ temp_file_info = None
    /\ disk = {}
    /\ video_info = None
    /\ asr = AsrIdle
    /\ transcript_text = <<>>
    /\ fo = FoIdle
    /\ llm_analysis = [kind |-> "empty"]
    /\ outcome = None
    /\ response = None
    /\ calls = <<>>
    /\ cleanup_log = <<>>

httpFrame ==
    UNCHANGED <<rid, next_uuid, pc, req, orch, temp_file_info, disk, video_info,
                asr, transcript_text, fo, llm_analysis, outcome, response,
                cleanup_log>>

\* await manager.get_client()
GetClient ==
    /\ pc = "http"
    /\ \E t \in Steppers("get_client") :
         LET tbl == Started(t, [name |-> "get_client"])
             g == get_client(http, t, tbl[t].pc = "lock_wait") IN
         /\ http' = g.http
         /\ IF g.blocked
            THEN /\ tasks' = [tbl EXCEPT ![t].pc = "lock_wait"]
                 /\ UNCHANGED calls
            ELSE /\ tasks' = [tbl EXCEPT ![t].pc = "done", ![t].client = g.client]
                 /\ calls' = Append(calls, GetClientReturned(http, t, g))
    /\ httpFrame

\* close, lines 43-47: up to the await of aclose(), which suspends the task
\* while it holds the lock
CloseStart ==
    /\ pc = "http"
    /\ \E t \in Steppers("close") :
         LET tbl == Started(t, [name |-> "close"]) IN
         IF tbl[t].pc = "start" /\ http._client = None
         THEN /\ tasks' = [tbl EXCEPT ![t].pc = "done"]
              /\ calls' = Append(calls, Call("close", t, None))
              /\ UNCHANGED http
         ELSE IF tbl[t].pc = "start" /\ ~Acquirable(http._lock)
         THEN /\ http' = [http EXCEPT !._lock = Enqueue(@, t)]
              /\ tasks' = [tbl EXCEPT ![t].pc = "lock_wait"]
              /\ UNCHANGED calls
         ELSE LET held == IF tbl[t].pc = "start"
                          THEN [http EXCEPT !._lock.locked = TRUE]
                          ELSE [http EXCEPT !._lock = TakeWoken(@)] IN
              IF held._client = None
              THEN /\ http' = [held EXCEPT !._lock = Release(@)]
                   /\ tasks' = [tbl EXCEPT ![t].pc = "done"]
                   /\ calls' = Append(calls, Call("close", t, None))
              ELSE /\ http' = AcloseBegins(held)
                   /\ tasks' = [tbl EXCEPT ![t].pc = "aclosing",
                                           ![t].client = held._client]
                   /\ calls' = Append(calls, Call("aclose", t, held._client))
    /\ httpFrame

\* close, line 48 and the end of the async with: aclose() has returned
CloseFinish ==
    /\ pc = "http"
    /\ \E t \in DOMAIN tasks :
         /\ tasks[t].pc = "aclosing"
         /\ http' = [ClearClient(http) EXCEPT !._lock = Release(@)]
         /\ tasks' = [tasks EXCEPT ![t].pc = "done"]
         /\ calls' = Append(calls, Call("close", t, tasks[t].client))
    /\ httpFrame

\* request, lines 65-78, up to the await of client.request(): get the
\* client, set the override, and send with the timeout the client has then.
\* A closed client refuses to send (RuntimeError); the finally clause puts
\* the timeout back.
RequestStart ==
    /\ pc = "http"
    /\ \E t \in Steppers("request"), override \in Overrides :
         LET tbl == Started(t, [name |-> "request", timeout_override |-> override])
             g == get_client(http, t, tbl[t].pc = "lock_wait")
             o == tbl[t].op.timeout_override
             c == g.client IN
         /\ o = override
         /\ IF g.blocked
            THEN /\ http' = g.http
                 /\ tasks' = [tbl EXCEPT ![t].pc = "lock_wait"]
                 /\ UNCHANGED calls
            ELSE IF g.http.clients[c.id].state = "closed"
            THEN /\ http' = g.http
                 /\ tasks' = [tbl EXCEPT ![t].pc = "done", ![t].client = c]
                 /\ calls' = calls \o
                       << GetClientReturned(http, t, g),
                          Call("request", t,
                               [client |-> c, timeout_override |-> o,
                                exc |-> "RuntimeError"]) >>
            ELSE LET used == IF o # None THEN Timeout(o.value)
                             ELSE g.http.clients[c.id].timeout IN
                 /\ http' = [g.http EXCEPT !.clients[c.id].timeout = used]
                 /\ tasks' = [tbl EXCEPT
                                 ![t].pc = "requesting",
                                 ![t].client = c,
                                 ![t].original_timeout =
                                     IF o # None THEN g.http.clients[c.id].timeout
                                     ELSE None]
                 /\ calls' = calls \o
                       << GetClientReturned(http, t, g),
                          Call("request", t,
                               [client |-> c, timeout_override |-> o,
                                timeout |-> used]) >>
    /\ httpFrame

\* request, lines 72-78: client.request() has ended (a response or an
\* exception); with an override the finally clause restores the timeout
\* that was saved
RequestFinish ==
    /\ pc = "http"
    /\ \E t \in DOMAIN tasks :
         /\ tasks[t].pc = "requesting"
         /\ http' = IF tasks[t].op.timeout_override # None
                    THEN [http EXCEPT !.clients[tasks[t].client.id].timeout =
                                          tasks[t].original_timeout]
                    ELSE http
         /\ tasks' = [tasks EXCEPT ![t].pc = "done"]
         /\ UNCHANGED calls
    /\ httpFrame

NextHttp ==
    \/ GetClient
    \/ CloseStart
    \/ CloseFinish
    \/ RequestStart
    \/ RequestFinish

SpecHttp == InitHttp /\ [][NextHttp]_vars

----------------------------------------------------------------------------
(* Properties of the shared HTTP client *)

\* the get_client calls that have returned, in the order of their return
\* (the calls made by request() included)
GetClientReturns == CallsOf("get_client")

\* the close() calls that have completed after closing a client
CloseCompletions ==
    { i \in CallsOf("close") : calls[i].result # None }

\* no close() has begun to close a client yet
FirstUse == CallsOf("aclose") = {}

\* C33: however many tasks call get_client on first use, exactly one
\* AsyncClient is created and every caller receives that instance; after a
\* close() has completed, the next get_client creates a new client, different
\* from the one that was closed.
C33_OneClientUntilClosed ==
    /\ (FirstUse /\ GetClientReturns # {}) =>
          /\ Len(http.clients) = 1
          /\ \A i \in GetClientReturns : calls[i].result.client = ClientRef(1)
    /\ \A i \in CloseCompletions, j \in GetClientReturns :
          (i < j /\ \A k \in GetClientReturns : ~(i < k /\ k < j)) =>
              /\ calls[j].result.created
              /\ calls[j].result.client # calls[i].result
              /\ calls[j].result.state = "open"

\* two tasks got the first client, it was closed, and the next caller got
\* a second one
C33_Witness ==
    /\ \E i, j \in GetClientReturns :
          /\ calls[i].arg # calls[j].arg
          /\ calls[i].result.client = ClientRef(1)
          /\ calls[j].result.client = ClientRef(1)
          /\ \E c \in CloseCompletions :
               /\ i < c /\ j < c
               /\ calls[c].result = ClientRef(1)
               /\ \E n \in GetClientReturns :
                    /\ c < n
                    /\ calls[n].result.client = ClientRef(2)
                    /\ calls[n].result.created

\* C36: whatever the interleaving of get_client and close, get_client never
\* returns a client that close() has begun to close: every caller receives
\* an open client.
C36_GetClientReturnsOpenClient ==
    \A i \in GetClientReturns : calls[i].result.state = "open"

\* every task that was started has run to its end
AllTasksDone == \A t \in DOMAIN tasks : tasks[t].pc = "done"

\* C37: once all concurrent request() calls have completed, with and
\* without timeout_override, the timeout of the shared client is the
\* configured default again; and a request made without an override never
\* runs under the override of another request.
C37_OverrideStaysWithItsRequest ==
    /\ AllTasksDone =>
          \A c \in DOMAIN http.clients : http.clients[c].timeout = DefaultTimeout
    /\ \A i \in CallsOf("request") :
          (calls[i].result.timeout_override = None /\ "timeout" \in DOMAIN calls[i].result)
              => calls[i].result.timeout = DefaultTimeout

----------------------------------------------------------------------------
(* What leaves the adapters, and what the failover does with it *)

\* replies whose handling runs through the last except branch of analyze():
\* no "choices" in the response, JSON that is no object, an analysis that is
\* no object, a null transcript
UnclassifiedFailures ==
    { r \in ChatReplies :
        /\ AdapterAnalyze("DeepSeek", r).kind = "exception"
        /\ Contains(AdapterAnalyze("DeepSeek", r).msg, " API error: ") }

\* C34: DeepSeekAdapter.analyze and KimiAdapter.analyze let no exception
\* other than LLMError escape (transport error, timeout, HTTP status error,
\* response without choices, JSON decode error, missing key, non-object
\* JSON, model-validation error), so every failure of the primary adapter
\* leads to the fallback.
C34_AdaptersRaiseOnlyLLMError ==
    /\ \A i \in DOMAIN fo.log :
          fo.log[i].out.kind = "exception" => fo.log[i].out.type = "LLMError"
    /\ (Len(fo.log) >= 1 /\ fo.log[1].out.kind = "exception") =>
          (fo.pc = "fallback" \/ Len(fo.log) = 2)

\* the primary failed on a response without choices and the fallback on a
\* null transcript (a model-validation error); both were LLMErrors
C34_Witness ==
    /\ Len(fo.log) = 2
    /\ calls[1].op = "DeepSeek.analyze"
    /\ calls[1].result.kind = "no_choices"
    /\ fo.log[1].out = ApiError("DeepSeek", "KeyError", KeyError("choices"))
    /\ calls[2].op = "Kimi.analyze"
    /\ calls[2].result \in UnclassifiedFailures
    /\ Contains(fo.log[2].out.msg, "ValidationError")
    /\ fo.log[2].out.type = "LLMError"
    /\ fo.pc = "raised"

\* C35: an exception of primary.analyze that is not an LLMError leaves
\* execute_with_failover and LLMRouter.analyze unchanged, and the fallback is
\* not invoked; an exception of the fallback that is not an LLMError leaves
\* unchanged too, in place of the aggregated error.
C35_OtherExceptionsPropagate ==
    /\ (/\ Len(fo.log) >= 1
        /\ fo.log[1].out.kind = "exception"
        /\ fo.log[1].out.type # "LLMError") =>
          /\ Len(fo.log) = 1
          /\ fo.pc = "raised"
          /\ fo.exc = fo.log[1].out
    /\ (/\ Len(fo.log) = 2
        /\ fo.log[2].out.kind = "exception"
        /\ fo.log[2].out.type # "LLMError") =>
          /\ fo.pc = "raised"
          /\ fo.exc = fo.log[2].out

\* the primary raised RuntimeError: it left as it was and no fallback ran
C35_Witness ==
    /\ Len(fo.log) = 1
    /\ fo.log[1].who = "primary"
    /\ fo.log[1].out = Exc("RuntimeError", <<"boom">>)
    /\ fo.pc = "raised"
    /\ fo.exc = Exc("RuntimeError", <<"boom">>)

----------------------------------------------------------------------------
(* Upload requests side by side: each /api/parse request with a file is a
   task of the event loop; they share TEMP_DIR and the process-wide
   HTTPClientManager.  A task runs without interruption from one await that
   suspends it to the next.  uuid.uuid4() is taken to give a value no
   earlier call gave. *)

MaxUploads == 2

\* parse_video for an upload, before save_upload_file
UploadTask(file) ==
    [op |-> [name |-> "parse_video", file |-> file], pc |-> "reading",
     file_path |-> None, temp_file_info |-> None]

InitUploads ==
    /\ rid = 0
    /\ http = HTTPClientManager
    /\ tasks = <<>>
    /\ next_uuid = 1
    /\ pc = "uploads"
    /\ req = None
    /\ orch = NewOrchestrator
    /\ temp_file_info = None
    /\ disk = {}
    /\ video_info = None
    /\ asr = AsrIdle
    /\ transcript_text = <<>>
    /\ fo = FoIdle
    /\ llm_analysis = [kind |-> "empty"]
    /\ outcome = None
    /\ response = None
    /\ calls = <<>>
    /\ cleanup_log = <<>>

\* the files of the concurrent uploads: a.mp4 and ../a.mp4, which
\* secure_filename maps to the same name
ConcurrentUploads ==
    { f \in UploadFiles :
        f.filename # None /\ SafeFilename(f) = <<"a", ".", "mp4">> }

uploadFrame ==
    UNCHANGED <<rid, pc, req, orch, temp_file_info, video_info, asr,
                transcript_text, fo, llm_analysis, outcome, response, calls,
                cleanup_log>>

\* whether an awaited operation returns or raises
AwaitOutcomes == {"ok", "raises"}

\* a multipart request arrives; save_upload_file runs up to its first await
\* (file.read()): the unique file name is fixed
UploadBegins ==
    /\ pc = "uploads"
    /\ Len(tasks) < MaxUploads
    /\ \E file \in ConcurrentUploads :
         tasks' = Append(tasks, [UploadTask(file) EXCEPT
                                    !.file_path = TempPath(next_uuid, SafeFilename(file))])
    /\ next_uuid' = next_uuid + 1
    /\ UNCHANGED <<disk, http>>
    /\ uploadFrame

\* await file.read() returns, and the task awaits aiofiles.open; or it
\* raises, which save_upload_file raises again as FileHandlerError
UploadRead ==
    /\ pc = "uploads"
    /\ \E t \in DOMAIN tasks, o \in AwaitOutcomes :
         /\ tasks[t].pc = "reading"
         /\ tasks' = [tasks EXCEPT ![t].pc = IF o = "ok" THEN "opening" ELSE "finally"]
    /\ UNCHANGED <<next_uuid, disk, http>>
    /\ uploadFrame

\* aiofiles.open(file_path, "wb") creates the file, and the task awaits
\* f.write(content); or it raises and no file exists
UploadOpened ==
    /\ pc = "uploads"
    /\ \E t \in DOMAIN tasks, o \in AwaitOutcomes :
         /\ tasks[t].pc = "opening"
         /\ disk' = IF o = "ok" THEN disk \cup {tasks[t].file_path} ELSE disk
         /\ tasks' = [tasks EXCEPT ![t].pc = IF o = "ok" THEN "writing" ELSE "finally"]
    /\ UNCHANGED <<next_uuid, http>>
    /\ uploadFrame

\* how process_file_workflow goes on when the transcription step is over
\* without an error that is raised again: _get_llm_router() raises, which
\* ends the workflow, or LLMRouter.analyze calls the primary adapter, which
\* takes the shared client from get_http_client() and awaits client.post
AnalysisStarts == {"router_fails", "analysis"}

\* task t after f.write(content): the file is closed, file_path.stat() gives
\* the size, save_upload_file returns the TempFileInfo, and
\* process_file_workflow runs up to its next await: that of
\* transcribe_from_file, or, when _get_oss_uploader() raised and the
\* placeholder transcript is in use (main.py:273-280), that of the analysis
Saved(t, o) ==
    [tasks EXCEPT
       ![t].pc = CASE o = "transcribe" -> "transcribing"
                   [] o = "analysis" -> "analysing"
                   [] OTHER -> "finally",
       ![t].temp_file_info =
           TempFileInfo(tasks[t].file_path, SafeFilename(tasks[t].op.file),
                        tasks[t].op.file.size)]

\* f.write(content) returns and the request goes on as far as its next
\* await; or the write, the close or stat() raises: save_upload_file raises
\* FileHandlerError and the file stays where it is
UploadWritten ==
    /\ pc = "uploads"
    /\ \E t \in DOMAIN tasks, o \in {"raises", "transcribe"} \cup AnalysisStarts :
         /\ tasks[t].pc = "writing"
         /\ tasks' = IF o = "raises" THEN [tasks EXCEPT ![t].pc = "finally"]
                     ELSE Saved(t, o)
         /\ http' = IF o = "analysis" THEN get_http_client(http) ELSE http
    /\ UNCHANGED <<next_uuid, disk>>
    /\ uploadFrame

\* transcribe_from_file returns or raises.  An ASRError, ValueError or
\* OSSUploaderError is raised again (main.py:266-273) and ends the
\* workflow; otherwise the workflow goes on to the analysis
UploadTranscribed ==
    /\ pc = "uploads"
    /\ \E t \in DOMAIN tasks, o \in {"reraised"} \cup AnalysisStarts :
         /\ tasks[t].pc = "transcribing"
         /\ tasks' = [tasks EXCEPT ![t].pc = IF o = "analysis" THEN "analysing"
                                             ELSE "finally"]
         /\ http' = IF o = "analysis" THEN get_http_client(http) ELSE http
    /\ UNCHANGED <<next_uuid, disk>>
    /\ uploadFrame

\* the analysis ends and process_file_workflow returns its AnalysisData or
\* raises
UploadAnalysed ==
    /\ pc = "uploads"
    /\ \E t \in DOMAIN tasks :
         /\ tasks[t].pc = "analysing"
         /\ tasks' = [tasks EXCEPT ![t].pc = "finally"]
    /\ UNCHANGED <<next_uuid, disk, http>>
    /\ uploadFrame

\* the finally block of parse_video: cleanup_resources(temp_file_info)
UploadCleanup ==
    /\ pc = "uploads"
    /\ \E t \in DOMAIN tasks :
         /\ tasks[t].pc = "finally"
         /\ IF tasks[t].temp_file_info = None
            THEN UNCHANGED disk
            ELSE \E c \in CleanupOutcomes :
                   disk' = IF c = "raises" THEN disk
                           ELSE FileHandlerCleanup(
                                    disk, tasks[t].temp_file_info.file_path, c)
         /\ tasks' = [tasks EXCEPT ![t].pc = "done"]
    /\ UNCHANGED <<next_uuid, http>>
    /\ uploadFrame

NextUploads ==
    \/ UploadBegins
    \/ UploadRead
    \/ UploadOpened
    \/ UploadWritten
    \/ UploadTranscribed
    \/ UploadAnalysed
    \/ UploadCleanup

SpecUploads == InitUploads /\ [][NextUploads]_vars

\* the request is inside process_file_workflow
Processing(task) == task.pc \in {"transcribing", "analysing"}

\* C38: the temp files saved for any two upload requests, concurrent ones
\* with the same original filename included, have distinct paths, and the
\* cleanup of one request never removes a file that another request is
\* still processing.
C38_DistinctTempPaths ==
    /\ \A t, u \in DOMAIN tasks :
          t # u => tasks[t].file_path # tasks[u].file_path
    /\ \A t \in DOMAIN tasks :
          Processing(tasks[t]) => tasks[t].temp_file_info.file_path \in disk

\* two uploads whose different file names (a.mp4, ../a.mp4) give the same
\* safe filename, saved side by side: one has been cleaned up while the
\* other, which began before that one was written, is still in its analysis
C38_Witness ==
    \E t, u \in DOMAIN tasks :
        /\ t < u
        /\ tasks[u].pc = "done"
        /\ tasks[u].temp_file_info # None
        /\ tasks[t].temp_file_info # None
        /\ tasks[t].op.file.filename # tasks[u].op.file.filename
        /\ tasks[t].temp_file_info.original_filename
             = tasks[u].temp_file_info.original_filename
        /\ tasks[u].temp_file_info.file_path \notin disk
        /\ tasks[t].pc = "analysing"
        /\ tasks[t].temp_file_info.file_path \in disk
        /\ http._client # None

\* the path save_upload_file chose in the current request
CreatedPath == TempPath(next_uuid - 1, SafeFilename(req.file))

\* C39: every temp file that save_upload_file creates during a request is
\* removed by the end of that request, also when save_upload_file itself
\* fails after the file was created (write error or stat error raised as
\* FileHandlerError).
C39_CreatedFileRemoved ==
    (pc = "done" /\ CallsOf("save_upload_file") # {}) => CreatedPath \notin disk

====
